---- MODULE Spec2Model ----
(***************************************************************************)
(* Model of the FHIR search handlers of synthetic-healthlake               *)
(* (health_platform/api/encounter/handler.py and                           *)
(* health_platform/api/observation/handler.py) together with the query     *)
(* executor they call (health_platform/utils/db.py).                       *)
(*                                                                         *)
(* Python strings whose characters matter (values that are parsed, split,  *)
(* trimmed or used as LIKE patterns) are sequences of one-character        *)
(* strings.  SQL text is a sequence of tokens: a condition template, AND,  *)
(* OR and the two parentheses.                                             *)
(***************************************************************************)
EXTENDS Integers, Sequences, FiniteSets, TLC

VARIABLES
    pc,             \* position of the invocation: idle, count, page, fetch, done
    resource,       \* which handler serves the invocation
    event,          \* the API Gateway event of the invocation
    store,          \* the warehouse tables, table name -> sequence of rows
    count,          \* local of search_*: normalized _count
    offset,         \* local of search_*: parsed _offset
    conditions,     \* local of search_*: list of SQL fragments
    query_params,   \* local of search_*: list of bound values
    count_results,  \* local of search_*: rows of the count query
    results,        \* local of search_* / get_*: rows of the page / fetch query
    response,       \* what lambda_handler returned
    calls,          \* execute_query calls of the invocation, in order
    db,             \* execute_query: its position, the open connections and cursors
    sweep,          \* a client paging through one result set: the pages it got
    applied,        \* a helper applied on its own: its arguments and its result
    clock,          \* datetime.utcnow(), in seconds
    s3,             \* the upload bucket: the put_object calls that succeeded, in order
    sqs,            \* the ingestion queue: the messages sent, in order
    inv,            \* the invocation of an ingestion handler: position, locals, response
    jobs            \* the jobs a client was told were accepted, in order

vars == <<pc, resource, event, store, count, offset, conditions, query_params,
          count_results, results, response, calls, db, sweep, applied,
          clock, s3, sqs, inv, jobs>>

\* the state of the ingestion side
ingestion == <<clock, s3, sqs, inv, jobs>>

\* what the handlers of the API do not touch between two execute_query calls
aux == <<db, sweep, applied, ingestion>>

----------------------------------------------------------------------------
(* Bounds of the model *)

\* longest raw _count string drawn from PagAlphabet
MaxRawLen == 4

\* rows per warehouse table
MaxDocs == 3

\* longest code filter value drawn from CodeAlphabet
MaxCodeLen == 5

\* largest TOTAL a canned count result reports
MaxTotal == 3

\* longest canned page of rows
MaxRows == 2

----------------------------------------------------------------------------
(* Python string helpers *)

Digits == <<"0", "1", "2", "3", "4", "5", "6", "7", "8", "9">>

IsDigit(c) == \E i \in 1..Len(Digits) : Digits[i] = c

DigitVal(c) == (CHOOSE i \in 1..Len(Digits) : Digits[i] = c) - 1

IsSpace(c) == c = " "

RECURSIVE LStrip(_)
LStrip(s) ==
    IF s # <<>> /\ IsSpace(Head(s)) THEN LStrip(Tail(s)) ELSE s

RECURSIVE RStrip(_)
RStrip(s) ==
    IF s # <<>> /\ IsSpace(s[Len(s)]) THEN RStrip(SubSeq(s, 1, Len(s) - 1)) ELSE s

\* str.strip()
Strip(s) == RStrip(LStrip(s))

\* the digits-and-underscores part of an int literal: digits, with single
\* underscores allowed only between two digits
RECURSIVE DigitGroupOk(_)
DigitGroupOk(s) ==
    /\ s # <<>>
    /\ IsDigit(Head(s))
    /\ \/ Len(s) = 1
       \/ /\ s[2] = "_"
          /\ DigitGroupOk(SubSeq(s, 3, Len(s)))
       \/ /\ s[2] # "_"
          /\ DigitGroupOk(Tail(s))

RECURSIVE DigitsValue(_, _)
DigitsValue(s, acc) ==
    IF s = <<>> THEN acc
    ELSE IF Head(s) = "_" THEN DigitsValue(Tail(s), acc)
    ELSE DigitsValue(Tail(s), 10 * acc + DigitVal(Head(s)))

HasSign(s) == s # <<>> /\ Head(s) \in {"+", "-"}

Unsigned(s) == IF HasSign(s) THEN Tail(s) ELSE s

\* int(s) does not raise ValueError
IntParses(s) == DigitGroupOk(Unsigned(Strip(s)))

\* int(s) for a string s that parses
IntOf(s) ==
    LET t == Strip(s)
        m == DigitsValue(Unsigned(t), 0)
    IN  IF HasSign(t) /\ Head(t) = "-" THEN 0 - m ELSE m

RECURSIVE NatToStr(_)
NatToStr(n) ==
    IF n < 10 THEN <<Digits[n + 1]>>
    ELSE NatToStr(n \div 10) \o <<Digits[(n % 10) + 1]>>

\* str(n) for an int n
StrOf(n) == IF n < 0 THEN <<"-">> \o NatToStr(0 - n) ELSE NatToStr(n)

----------------------------------------------------------------------------
(* Program constants *)

\* params.get("_count", 100)
DefaultCount == 100

\* min(..., 1000)
MaxCount == 1000

\* params.get("_offset", 0)
DefaultOffset == 0

----------------------------------------------------------------------------
(* Response Formatter *)

\* 500 itself taken for a client error
IssueCodeAbove500(status_code) ==
    IF status_code > 500 THEN "processing"
    ELSE IF status_code = 404 THEN "not-found"
    ELSE "invalid"

IssueCode(status_code) ==
    IF status_code >= 500 THEN "processing"
    ELSE IF status_code = 404 THEN "not-found"
    ELSE "invalid"

\* error_response(status_code, message); message is a sequence of words
error_response(status_code, message) ==
    [statusCode |-> status_code,
     headers    |-> [ContentType |-> "application/fhir+json",
                     CacheControl |-> "absent"],
     body       |-> [resourceType |-> "OperationOutcome",
                     issue |-> <<[severity    |-> "error",
                                  code        |-> IssueCode(status_code),
                                  diagnostics |-> message]>>]]

\* success_response(body)
success_response(body) ==
    [statusCode |-> 200,
     headers    |-> [ContentType |-> "application/fhir+json",
                     CacheControl |-> "no-cache, no-store, must-revalidate"],
     body       |-> body]

MsgInvalidPagination == <<"Invalid", "pagination", "parameters">>

\* the text of the exception instead of the fixed message
MsgException == <<"Database", "connection", "failed">>

MsgInternal == <<"Internal", "Server", "Error">>

MsgNotFound(r) == <<r, "not", "found">>

----------------------------------------------------------------------------
(* Pagination Policy: search_encounters 106-111, search_observations 107-112 *)

Min(a, b) == IF a <= b THEN a ELSE b

\* params.get(key): the key is present
Has(params, key) == key \in DOMAIN params

\* `if value:` on params.get(key): present and not the empty string
Truthy(params, key) == Has(params, key) /\ params[key] # <<>>

\* only int(_count) is guarded
PaginationOkCountOnly(params) ==
    Has(params, "_count") => IntParses(params["_count"])

\* neither int(...) raises ValueError
PaginationOk(params) ==
    /\ Has(params, "_count") => IntParses(params["_count"])
    /\ Has(params, "_offset") => IntParses(params["_offset"])

\* int(params.get("_count", 100))
RawCount(params) ==
    IF Has(params, "_count") THEN IntOf(params["_count"]) ELSE DefaultCount

\* the clamp left out
NormalizeCountUnclamped(n) == n

\* min(n, 1000)
NormalizeCount(n) == Min(n, MaxCount)

\* count = min(int(params.get("_count", 100)), 1000)
CountOf(params) == NormalizeCount(RawCount(params))

\* offset = int(params.get("_offset", 0))
OffsetOf(params) ==
    IF Has(params, "_offset") THEN IntOf(params["_offset"]) ELSE DefaultOffset

----------------------------------------------------------------------------
(* Predicate Builder: search_encounters 113-132, search_observations 114-147 *)

CondSubject == "RECORD_CONTENT:subject.reference::string LIKE %s"

CondStatus == "RECORD_CONTENT:status::string = %s"

CondPeriodStart == "RECORD_CONTENT:period.start::string LIKE %s"

CondClass == "RECORD_CONTENT:class.code::string = %s"

CondCode == "RECORD_CONTENT:code.coding[0].code::string = %s"

CondEffective == "RECORD_CONTENT:effectiveDateTime::string LIKE %s"

CondCategory == "RECORD_CONTENT:category[0].coding[0].code::string = %s"

CondId == "RECORD_CONTENT:id::string = %s"

PatientPrefix == <<"P", "a", "t", "i", "e", "n", "t", "/">>

\* f"%Patient/{patient_id}%"
PatientPattern(patient_id) == <<"%">> \o PatientPrefix \o patient_id \o <<"%">>

\* f"{date}%"
DatePattern(date) == date \o <<"%">>

\* sep.join(parts), parts a sequence of token sequences
RECURSIVE Join(_, _)
Join(parts, sep) ==
    IF parts = <<>> THEN <<>>
    ELSE IF Len(parts) = 1 THEN parts[1]
    ELSE parts[1] \o <<sep>> \o Join(Tail(parts), sep)

\* s.split(",")
RECURSIVE Split(_)
Split(s) ==
    IF \A i \in 1..Len(s) : s[i] # ","
    THEN <<s>>
    ELSE LET i == CHOOSE k \in 1..Len(s) :
                      s[k] = "," /\ \A j \in 1..(k - 1) : s[j] # ","
         IN  <<SubSeq(s, 1, i - 1)>> \o Split(SubSeq(s, i + 1, Len(s)))

\* the strip left out: codes = code.split(",")
CodesUntrimmed(code) == Split(code)

\* codes = [c.strip() for c in code.split(",")]
Codes(code) ==
    LET parts == Split(code)
    IN  [i \in 1..Len(parts) |-> Strip(parts[i])]

\* one `if value:` block: the fragment appended to conditions and the values
\* appended to query_params
Predicate(fragment, values) == [cond |-> fragment, binds |-> values]

\* the parentheses left out
OrGroupBare(code_conditions) == Join(code_conditions, "OR")

\* f"({' OR '.join(code_conditions)})"
OrGroup(code_conditions) == <<"(">> \o Join(code_conditions, "OR") \o <<")">>

\* the `if code:` block of search_observations
CodePredicate(code) ==
    LET codes == Codes(code)
    IN  IF Len(codes) = 1
        THEN Predicate(<<CondCode>>, <<codes[1]>>)
        ELSE Predicate(OrGroup([i \in 1..Len(codes) |-> <<CondCode>>]), codes)

When(test, predicate) == IF test THEN <<predicate>> ELSE <<>>

\* the `if encounter_class:` block left out
EncounterPredicatesNoClass(params) ==
       When(Truthy(params, "patient"),
            Predicate(<<CondSubject>>, <<PatientPattern(params["patient"])>>))
    \o When(Truthy(params, "status"),
            Predicate(<<CondStatus>>, <<params["status"]>>))
    \o When(Truthy(params, "date"),
            Predicate(<<CondPeriodStart>>, <<DatePattern(params["date"])>>))

EncounterPredicates(params) ==
       When(Truthy(params, "patient"),
            Predicate(<<CondSubject>>, <<PatientPattern(params["patient"])>>))
    \o When(Truthy(params, "status"),
            Predicate(<<CondStatus>>, <<params["status"]>>))
    \o When(Truthy(params, "date"),
            Predicate(<<CondPeriodStart>>, <<DatePattern(params["date"])>>))
    \o When(Truthy(params, "class"),
            Predicate(<<CondClass>>, <<params["class"]>>))

ObservationPredicates(params) ==
       When(Truthy(params, "patient"),
            Predicate(<<CondSubject>>, <<PatientPattern(params["patient"])>>))
    \o When(Truthy(params, "code"), CodePredicate(params["code"]))
    \o When(Truthy(params, "date"),
            Predicate(<<CondEffective>>, <<DatePattern(params["date"])>>))
    \o When(Truthy(params, "category"),
            Predicate(<<CondCategory>>, <<params["category"]>>))
    \o When(Truthy(params, "status"),
            Predicate(<<CondStatus>>, <<params["status"]>>))

Predicates(r, params) ==
    IF r = "Encounter" THEN EncounterPredicates(params)
    ELSE ObservationPredicates(params)

\* the conditions list after the `if` blocks
ConditionsOf(preds) == [i \in 1..Len(preds) |-> preds[i].cond]

\* the values of the last block first
RECURSIVE BindsOfReversed(_)
BindsOfReversed(preds) ==
    IF preds = <<>> THEN <<>>
    ELSE BindsOfReversed(Tail(preds)) \o Head(preds).binds

\* the query_params list after the `if` blocks
RECURSIVE BindsOf(_)
BindsOf(preds) ==
    IF preds = <<>> THEN <<>> ELSE Head(preds).binds \o BindsOf(Tail(preds))

\* the offset appended before the count
ExtendPagingOffsetFirst(binds, c, o) == binds \o <<StrOf(o), StrOf(c)>>

\* query_params.extend([str(count), str(offset)])
ExtendPaging(binds, c, o) == binds \o <<StrOf(c), StrOf(o)>>

----------------------------------------------------------------------------
(* Query Assembler: search_encounters 134-157, search_observations 149-172 *)

\* where_clause = "WHERE " + " AND ".join(conditions), or ""
WhereClause(conds) ==
    IF conds = <<>> THEN <<>> ELSE <<"WHERE">> \o Join(conds, "AND")

TableName(r) ==
    CASE r = "Encounter" -> "RAW.ENCOUNTERS"
      [] r = "Patient" -> "RAW.PATIENTS"
      [] OTHER -> "RAW.OBSERVATIONS"

OrderBy(r) ==
    IF r = "Encounter" THEN "ORDER BY RECORD_CONTENT:period.start::string DESC"
    ELSE "ORDER BY RECORD_CONTENT:effectiveDateTime::string DESC"

LimitOffset == "LIMIT %s OFFSET %s"

LimitOne == "LIMIT 1"

\* count_sql
CountSql(r, conds) ==
    [select |-> "COUNT(*) as total", from |-> TableName(r),
     where |-> WhereClause(conds), tail |-> <<>>]

\* sql of search_*
PageSql(r, conds) ==
    [select |-> "RECORD_CONTENT", from |-> TableName(r),
     where |-> WhereClause(conds), tail |-> <<OrderBy(r), LimitOffset>>]

\* sql of get_encounter / get_observation / the patient lambda_handler
FetchSql(r) ==
    [select |-> "RECORD_CONTENT", from |-> TableName(r),
     where |-> <<"WHERE", CondId>>, tail |-> <<LimitOne>>]

\* only the OFFSET value cut off: query_params[:-1]
CountBindsKeepLimit(qp) == SubSeq(qp, 1, Len(qp) - 1)

\* the bound values of the count query: query_params[:-2]
CountBinds(qp) == SubSeq(qp, 1, Len(qp) - 2)

\* params of execute_query: None, or a tuple of bound values
NoneParams == [isNone |-> TRUE, values |-> <<>>]

Tuple(values) == [isNone |-> FALSE, values |-> values]

\* tuple(query_params[:-2]) if query_params[:-2] else None
CountArgs(qp) ==
    IF CountBinds(qp) # <<>> THEN Tuple(CountBinds(qp)) ELSE NoneParams

----------------------------------------------------------------------------
(* Query Executor: execute_query runs the statement on the warehouse.      *)
(* A stored document maps JSON paths to string values.                     *)

IsOperator(tok) == tok \in {"WHERE", "AND", "OR", "(", ")"}

CondPath(tok) ==
    CASE tok = CondSubject -> "subject.reference"
      [] tok = CondStatus -> "status"
      [] tok = CondPeriodStart -> "period.start"
      [] tok = CondClass -> "class.code"
      [] tok = CondCode -> "code.coding[0].code"
      [] tok = CondEffective -> "effectiveDateTime"
      [] tok = CondCategory -> "category[0].coding[0].code"
      [] tok = CondId -> "id"

CondIsLike(tok) == tok \in {CondSubject, CondPeriodStart, CondEffective}

\* SQL: s LIKE pattern, % any run of characters, _ any one character
RECURSIVE Like(_, _)
Like(s, pattern) ==
    IF pattern = <<>> THEN s = <<>>
    ELSE IF Head(pattern) = "%"
         THEN Like(s, Tail(pattern)) \/ (s # <<>> /\ Like(Tail(s), pattern))
    ELSE IF s = <<>> THEN FALSE
    ELSE /\ Head(pattern) = "_" \/ Head(pattern) = Head(s)
         /\ Like(Tail(s), Tail(pattern))

\* one condition template with its %s bound to value, on document doc
\* (a missing path is NULL and satisfies no condition)
TestCond(tok, value, doc) ==
    LET path == CondPath(tok)
    IN  /\ path \in DOMAIN doc
        /\ IF CondIsLike(tok) THEN Like(doc[path], value) ELSE doc[path] = value

\* how many %s placeholders tokens[1..i] holds
PlaceholdersIn(tokens, i) ==
    Cardinality({k \in 1..i : ~IsOperator(tokens[k])})

\* the WHERE tokens with every condition replaced by its truth value, the
\* k-th placeholder bound to the k-th value
Truths(tokens, binds, doc) ==
    [i \in 1..Len(tokens) |->
        IF IsOperator(tokens[i]) THEN tokens[i]
        ELSE IF TestCond(tokens[i], binds[PlaceholdersIn(tokens, i)], doc)
             THEN "T" ELSE "F"]

\* a conjunction: T AND F AND ...
EvalAnd(ts) == \A i \in 1..Len(ts) : ts[i] \in {"T", "AND"}

\* SQL precedence without parentheses: AND binds tighter than OR
RECURSIVE EvalOr(_)
EvalOr(ts) ==
    IF \A i \in 1..Len(ts) : ts[i] # "OR"
    THEN EvalAnd(ts)
    ELSE LET i == CHOOSE k \in 1..Len(ts) :
                      ts[k] = "OR" /\ \A j \in 1..(k - 1) : ts[j] # "OR"
         IN  EvalAnd(SubSeq(ts, 1, i - 1)) \/ EvalOr(SubSeq(ts, i + 1, Len(ts)))

\* innermost parenthesized group first, replaced by its value
RECURSIVE EvalExpr(_)
EvalExpr(ts) ==
    IF \A i \in 1..Len(ts) : ts[i] # ")"
    THEN EvalOr(ts)
    ELSE LET close == CHOOSE k \in 1..Len(ts) :
                          ts[k] = ")" /\ \A j \in 1..(k - 1) : ts[j] # ")"
             open  == CHOOSE k \in 1..(close - 1) :
                          ts[k] = "(" /\ \A j \in (k + 1)..(close - 1) : ts[j] # "("
             inner == EvalOr(SubSeq(ts, open + 1, close - 1))
         IN  EvalExpr(SubSeq(ts, 1, open - 1)
                      \o <<IF inner THEN "T" ELSE "F">>
                      \o SubSeq(ts, close + 1, Len(ts)))

\* whether the WHERE clause selects the document
EvalWhere(where, binds, doc) ==
    where = <<>> \/ EvalExpr(Truths(Tail(where), binds, doc))

\* number of %s in a statement
Placeholders(sql) ==
    PlaceholdersIn(sql.where, Len(sql.where))
    + (IF \E i \in 1..Len(sql.tail) : sql.tail[i] = LimitOffset THEN 2 ELSE 0)

\* characters of the model in ASCII order, for ORDER BY on strings
Ascii == <<" ", "%", "+", ",", "-", "/",
           "0", "1", "2", "3", "4", "5", "6", "7", "8", "9",
           "A", "B", "P", "_", "a", "e", "i", "n", "t", "x">>

Rank(c) == CHOOSE i \in 1..Len(Ascii) : Ascii[i] = c

\* a >= b as strings
RECURSIVE StrGeq(_, _)
StrGeq(a, b) ==
    IF b = <<>> THEN TRUE
    ELSE IF a = <<>> THEN FALSE
    ELSE IF Head(a) = Head(b) THEN StrGeq(Tail(a), Tail(b))
    ELSE Rank(Head(a)) > Rank(Head(b))

OrderPath(r) == IF r = "RAW.ENCOUNTERS" THEN "period.start" ELSE "effectiveDateTime"

\* row i may precede row j under ORDER BY key DESC (NULL keys first)
MayPrecede(rows, path, i, j) ==
    \/ path \notin DOMAIN rows[i].doc
    \/ /\ path \in DOMAIN rows[j].doc
       /\ StrGeq(rows[i].doc[path], rows[j].doc[path])

\* every order of the matching rows that the ORDER BY allows
Orderings(rows, path, match) ==
    LET n == Cardinality(match)
    IN  {o \in [1..n -> match] :
            /\ \A a, b \in 1..n : a # b => o[a] # o[b]
            /\ \A a \in 1..(n - 1) : MayPrecede(rows, path, o[a], o[a + 1])}

\* LIMIT limit OFFSET off: positions off+1 .. off+limit of the ordered rows
Slice(o, limit, off) ==
    LET keep == {i \in 1..Len(o) : off < i /\ i <= off + limit}
        lo   == IF off < 0 THEN 0 ELSE off
    IN  [k \in 1..Cardinality(keep) |-> o[lo + k]]

\* a text as json.loads sees it: the text of an object, with its members
\* in order, each a <<path, value>> pair; the text of a string, a quoted
\* literal whose characters are again a text; or a text that is not JSON
ObjectText(members) == [kind |-> "object", members |-> members, inner |-> <<>>]

StringText(text) == [kind |-> "string", members |-> <<>>, inner |-> <<text>>]

MalformedText == [kind |-> "malformed", members |-> <<>>, inner |-> <<>>]

\* a Python value held by a row: a str with its text, or a dict
PyStr(text) == [isStr |-> TRUE, text |-> text]

PyDict(doc) == [isStr |-> FALSE, value |-> doc]

\* json.dumps of a stored document as the connector returns it
KeyOrder == <<"id", "subject.reference", "status", "period.start", "class.code",
              "code.coding[0].code", "effectiveDateTime",
              "category[0].coding[0].code", "name">>

JsonText(doc) ==
    LET keys == SelectSeq(KeyOrder, LAMBDA k : k \in DOMAIN doc)
    IN  ObjectText([i \in 1..Len(keys) |-> <<keys[i], doc[keys[i]]>>])

\* the RECORD_CONTENT value of a fetched row: JSON text or a parsed object
Wire(row) ==
    [RECORD_CONTENT |->
        IF row.wire = "str" THEN PyStr(JsonText(row.doc)) ELSE PyDict(row.doc)]

\* the row sequences cursor.fetchall() may return for the statement
QueryResults(tables, sql, args) ==
    LET rows  == tables[sql.from]
        binds == args.values
        match == {i \in 1..Len(rows) : EvalWhere(sql.where, binds, rows[i].doc)}
    IN  IF sql.select = "COUNT(*) as total"
        THEN {<<[TOTAL |-> Cardinality(match)]>>}
        ELSE IF sql.tail = <<LimitOne>>
        THEN IF match = {} THEN {<<>>} ELSE {<<Wire(rows[i])>> : i \in match}
        ELSE LET n     == Len(binds)
                 limit == IntOf(binds[n - 1])
                 off   == IntOf(binds[n])
             IN  {LET page == Slice(o, limit, off)
                  IN  [k \in 1..Len(page) |-> Wire(rows[page[k]])] :
                      o \in Orderings(rows, OrderPath(sql.from), match)}

----------------------------------------------------------------------------
(* Result Mapper *)

\* the value is a Python str
IsPyStr(value) == DOMAIN value = {"isStr", "text"}

\* the members of a dict, in some order
RECURSIVE Members(_, _)
Members(obj, keys) ==
    IF keys = {} THEN <<>>
    ELSE LET k == CHOOSE x \in keys : TRUE
         IN  <<<<k, obj[k]>>>> \o Members(obj, keys \ {k})

\* json.dumps(body): of a str the string literal, of a dict the object text
json_dumps(obj) ==
    IF IsPyStr(obj) THEN StringText(obj.text)
    ELSE ObjectText(Members(obj, DOMAIN obj))

\* json.loads raises JSONDecodeError on a text that is not JSON
JSONDecodeError(text) == text.kind = "malformed"

\* json.loads of a JSON text: of an object text the dict, the last member
\* of a name winning; of a string literal the str it quotes
json_loads(text) ==
    LET ms == text.members
        keys == {ms[i][1] : i \in 1..Len(ms)}
        last(k) == CHOOSE i \in 1..Len(ms) :
                       ms[i][1] = k /\ \A j \in (i + 1)..Len(ms) : ms[j][1] # k
    IN  CASE text.kind = "object" -> [k \in keys |-> ms[last(k)][2]]
          [] text.kind = "string" -> PyStr(text.inner[1])

\* the record returned as it is
parse_recordAsIs(record) ==
    IF record.isStr THEN record ELSE record.value

\* parse_record(record)
parse_record(record) ==
    IF record.isStr THEN json_loads(record.text) ELSE record.value

\* parse_record(record) raises
ParseRaises(record) == record.isStr /\ JSONDecodeError(record.text)

\* the number of rows taken for the total: len(count_results)
TotalOfRowCount(rows) == Len(rows)

\* total = count_results[0]["TOTAL"] if count_results else 0
TotalOf(rows) == IF rows # <<>> THEN rows[1].TOTAL ELSE 0

\* the entry list: one {"resource": record} per row, in row order
Entries(rows) ==
    [i \in 1..Len(rows) |-> [resource |-> parse_record(rows[i].RECORD_CONTENT)]]

Bundle(total, entry) ==
    [resourceType |-> "Bundle", type |-> "searchset",
     total |-> total, entry |-> entry]

----------------------------------------------------------------------------
(* The handlers *)

EmptyMap == [k \in {} |-> <<>>]

NoResponse == [statusCode |-> 0]

NoEvent == [pathParameters |-> EmptyMap, queryStringParameters |-> EmptyMap]

IdKey(r) ==
    CASE r = "Encounter" -> "encounterId"
      [] r = "Patient" -> "patientId"
      [] OTHER -> "observationId"

\* what execute_query may do: raise, or return one of the row sequences the
\* warehouse can produce (a statement whose placeholders do not match the
\* bound values can only raise)
Raised == [raised |-> TRUE, rows |-> <<>>]

Returned(rows) == [raised |-> FALSE, rows |-> rows]

execute_query(tables, sql, args) ==
    {Raised} \cup
    (IF Placeholders(sql) = Len(args.values)
     THEN {Returned(rs) : rs \in QueryResults(tables, sql, args)}
     ELSE {})

\* one execute_query call: its arguments and whether it raised
Call(sql, args, out) == [sql |-> sql, params |-> args, raised |-> out.raised]

\* the exception leaves lambda_handler: there is no response
Propagated == NoResponse

\* lambda_handler: except Exception -> error_response(500, ...)
OnException == error_response(500, MsgInternal)

Parsed(rows) == SelectSeq(rows, LAMBDA row : ~ParseRaises(row.RECORD_CONTENT))

\* the rows that do not parse left out of the Bundle
PageResponseSkipping(count_rows, rows) ==
    success_response(Bundle(TotalOf(count_rows), Entries(Parsed(rows))))

\* search_*: the loop over the rows of the page query and the Bundle
PageResponse(count_rows, rows) ==
    IF \E i \in 1..Len(rows) : ParseRaises(rows[i].RECORD_CONTENT)
    THEN OnException
    ELSE success_response(Bundle(TotalOf(count_rows), Entries(rows)))

\* get_encounter / get_observation after the query
FetchResponse(r, rows) ==
    IF rows = <<>> THEN error_response(404, MsgNotFound(r))
    ELSE IF ParseRaises(rows[1].RECORD_CONTENT) THEN OnException
    ELSE success_response(parse_record(rows[1].RECORD_CONTENT))

\* the responses of the patient lambda_handler
MsgMissingPatientId == <<"Missing", "patientId", "in", "path", "parameters">>

PatientError(status_code, message) ==
    [statusCode |-> status_code, body |-> [error |-> message]]

PatientResponse(out) ==
    IF out.raised THEN PatientError(500, MsgInternal)
    ELSE IF out.rows = <<>> THEN PatientError(404, MsgNotFound("Patient"))
    ELSE IF ParseRaises(out.rows[1].RECORD_CONTENT)
    THEN PatientError(500, MsgInternal)
    ELSE [statusCode |-> 200,
          headers |-> [ContentType |-> "application/json"],
          body |-> parse_record(out.rows[1].RECORD_CONTENT)]

\* lambda_handler up to the first execute_query: routing, and for a search
\* the pagination check and the query building
lambda_handler(rq) ==
    LET path_params  == rq.event.pathParameters
        qsp          == rq.event.queryStringParameters
        preds        == Predicates(rq.resource, qsp)
    IN  /\ resource' = rq.resource
        /\ event' = rq.event
        /\ IF Truthy(path_params, IdKey(rq.resource))
           THEN /\ pc' = "fetch"
                /\ UNCHANGED <<count, offset, conditions, query_params, response>>
           ELSE IF rq.resource = "Patient"
           THEN /\ pc' = "done"
                /\ response' = PatientError(400, MsgMissingPatientId)
                /\ UNCHANGED <<count, offset, conditions, query_params>>
           ELSE IF ~PaginationOk(qsp)
           THEN /\ pc' = "done"
                /\ response' = error_response(400, MsgInvalidPagination)
                /\ UNCHANGED <<count, offset, conditions, query_params>>
           ELSE /\ pc' = "count"
                /\ count' = CountOf(qsp)
                /\ offset' = OffsetOf(qsp)
                /\ conditions' = ConditionsOf(preds)
                /\ query_params' =
                       ExtendPaging(BindsOf(preds), CountOf(qsp), OffsetOf(qsp))
                /\ UNCHANGED response
        /\ UNCHANGED <<store, count_results, results, calls>>

\* search_*: the count query has run with outcome out
CountDone(out) ==
    /\ calls' = Append(calls, Call(CountSql(resource, conditions),
                                    CountArgs(query_params), out))
    /\ IF out.raised
       THEN /\ pc' = "done"
            /\ response' = OnException
            /\ UNCHANGED count_results
       ELSE /\ pc' = "page"
            /\ count_results' = out.rows
            /\ UNCHANGED response
    /\ UNCHANGED <<resource, event, store, count, offset, conditions,
                   query_params, results>>

\* search_*: the page query has run with outcome out; the Bundle is built
PageDone(out) ==
    /\ calls' = Append(calls, Call(PageSql(resource, conditions),
                                    Tuple(query_params), out))
    /\ IF out.raised
       THEN /\ response' = OnException
            /\ UNCHANGED results
       ELSE /\ results' = out.rows
            /\ response' = PageResponse(count_results, out.rows)
    /\ pc' = "done"
    /\ UNCHANGED <<resource, event, store, count, offset, conditions,
                   query_params, count_results>>

FetchArgs == Tuple(<<event.pathParameters[IdKey(resource)]>>)

\* get_encounter / get_observation / the patient lambda_handler: the query
\* has run with outcome out
FetchDone(out) ==
    /\ calls' = Append(calls, Call(FetchSql(resource), FetchArgs, out))
    /\ results' = IF out.raised THEN results ELSE out.rows
    /\ response' = IF resource = "Patient" THEN PatientResponse(out)
                   ELSE IF out.raised THEN OnException
                   ELSE FetchResponse(resource, out.rows)
    /\ pc' = "done"
    /\ UNCHANGED <<resource, event, store, count, offset, conditions,
                   query_params, count_results>>

CountQuery ==
    /\ pc = "count"
    /\ \E out \in execute_query(store, CountSql(resource, conditions),
                                CountArgs(query_params)) : CountDone(out)
    /\ UNCHANGED aux

PageQuery ==
    /\ pc = "page"
    /\ \E out \in execute_query(store, PageSql(resource, conditions),
                                Tuple(query_params)) : PageDone(out)
    /\ UNCHANGED aux

FetchQuery ==
    /\ pc = "fetch"
    /\ \E out \in execute_query(store, FetchSql(resource), FetchArgs) :
           FetchDone(out)
    /\ UNCHANGED aux

\* the invocation has returned its response; the next one starts afresh
Returning ==
    /\ pc = "done"
    /\ pc' = "idle"
    /\ resource' = "none"
    /\ event' = NoEvent
    /\ count' = 0
    /\ offset' = 0
    /\ conditions' = <<>>
    /\ query_params' = <<>>
    /\ count_results' = <<>>
    /\ results' = <<>>
    /\ response' = NoResponse
    /\ calls' = <<>>
    /\ UNCHANGED store

Return == Returning /\ UNCHANGED aux

\* execute_query is not running
DbIdle ==
    [pc |-> "idle", conns |-> 0, cursors |-> 0, exc |-> FALSE, failed |-> "none",
     rows |-> <<>>]

\* no page received yet
NoSweep == [resource |-> "none", filters |-> EmptyMap, got |-> <<>>]

NoApplication == [fn |-> "none"]

\* no ingestion handler is running
InvIdle == [pc |-> "idle"]

\* the clock starts two seconds before midnight
ClockStart == 86398

\* the seconds a behaviour lasts
MaxTicks == 3

\* the put_object calls a behaviour has
MaxPuts == 2

\* if len(sanitized) > 100
FilenameLimit == 100

\* the characters of a file name before and after its long run
MaxEdgeLen == 2

\* the S3 records of the events of a behaviour
MaxRecords == 3

\* the characters of an NDJSON content
MaxContentLen == 4

\* the values of the eight hex digits taken from the md5 digest
DigestSpace == 97

SecondsPerDay == 86400

InitWith(tables) ==
    /\ pc = "idle"
    /\ resource = "none"
    /\ event = NoEvent
    /\ store \in tables
    /\ count = 0
    /\ offset = 0
    /\ conditions = <<>>
    /\ query_params = <<>>
    /\ count_results = <<>>
    /\ results = <<>>
    /\ response = NoResponse
    /\ calls = <<>>
    /\ db = DbIdle
    /\ sweep = NoSweep
    /\ applied = NoApplication
    /\ clock = ClockStart
    /\ s3 = <<>>
    /\ sqs = <<>>
    /\ inv = InvIdle
    /\ jobs = <<>>

----------------------------------------------------------------------------
(* The warehouse contents and the requests the specifications draw from *)

\* a string that is only ever compared as a whole
Str(word) == <<word>>

Subject(patient_id) == PatientPrefix \o patient_id

EncounterDoc(id, patient_id, status, start, class) ==
    [k \in {"id", "subject.reference", "status", "period.start", "class.code"} |->
        CASE k = "id" -> id
          [] k = "subject.reference" -> Subject(patient_id)
          [] k = "status" -> Str(status)
          [] k = "period.start" -> start
          [] k = "class.code" -> Str(class)]

ObservationDoc(id, patient_id, code, effective, category, status) ==
    [k \in {"id", "subject.reference", "code.coding[0].code", "effectiveDateTime",
            "category[0].coding[0].code", "status"} |->
        CASE k = "id" -> id
          [] k = "subject.reference" -> Subject(patient_id)
          [] k = "code.coding[0].code" -> code
          [] k = "effectiveDateTime" -> effective
          [] k = "category[0].coding[0].code" -> Str(category)
          [] k = "status" -> Str(status)]

Row(doc, wire) == [doc |-> doc, wire |-> wire]

EncounterRows ==
    <<Row(EncounterDoc(<<"1">>, <<"1">>, "finished", <<"2", "4", "0", "1">>, "AMB"), "str"),
      Row(EncounterDoc(<<"2">>, <<"1", "2">>, "finished", <<"2", "4", "0", "1">>, "EMER"), "dict"),
      Row(EncounterDoc(<<"3">>, <<"2">>, "planned", <<"2", "3", "1", "2">>, "AMB"), "str"),
      Row(EncounterDoc(<<"4">>, <<"1">>, "planned", <<"2", "4", "0", "2">>, "EMER"), "dict"),
      Row(EncounterDoc(<<"5">>, <<"2", "1">>, "finished", <<"2", "3", "1", "2">>, "AMB"), "str")>>

ObservationRows ==
    <<Row(ObservationDoc(<<"1">>, <<"1">>, <<"A">>, <<"2", "4", "0", "1">>, "vital-signs", "final"), "str"),
      Row(ObservationDoc(<<"2">>, <<"1", "2">>, <<"B">>, <<"2", "4", "0", "1">>, "laboratory", "final"), "dict"),
      Row(ObservationDoc(<<"3">>, <<"2">>, <<"A">>, <<"2", "3", "1", "2">>, "laboratory", "amended"), "str"),
      Row(ObservationDoc(<<"4">>, <<"1">>, <<"B">>, <<"2", "4", "0", "2">>, "vital-signs", "amended"), "dict"),
      Row(ObservationDoc(<<"5">>, <<"2", "1">>, <<"A", "B">>, <<"2", "3", "1", "2">>, "vital-signs", "final"), "str")>>

PatientDoc(id, name) ==
    [k \in {"id", "name"} |-> IF k = "id" THEN id ELSE Str(name)]

PatientRows ==
    <<Row(PatientDoc(<<"1">>, "Ann"), "str"),
      Row(PatientDoc(<<"2">>, "Bob"), "dict"),
      Row(PatientDoc(<<"1", "2">>, "Cy"), "str"),
      Row(PatientDoc(<<"2", "1">>, "Di"), "dict")>>

TableRows(t) ==
    CASE t = "RAW.ENCOUNTERS" -> EncounterRows
      [] t = "RAW.PATIENTS" -> PatientRows
      [] OTHER -> ObservationRows

\* the three tables holding the first n rows each
Tables(n) ==
    [t \in {"RAW.ENCOUNTERS", "RAW.OBSERVATIONS", "RAW.PATIENTS"} |->
        SubSeq(TableRows(t), 1, Min(n, Len(TableRows(t))))]

Resources == {"Encounter", "Observation"}

\* every string over alphabet of length at most n
Strings(alphabet, n) == UNION {[1..k -> alphabet] : k \in 0..n}

\* a mapping with the one key, or without it
Entry(key, values) == {key :> v : v \in values}

Optional(key, values) == {EmptyMap} \cup Entry(key, values)

Request(r, path_params, qsp) ==
    [resource |-> r,
     event |-> [pathParameters |-> path_params, queryStringParameters |-> qsp]]

\* GET /encounter/{id}, GET /observation/{id}
FetchRequests ==
    {Request(r, IdKey(r) :> id, EmptyMap) :
        r \in Resources, id \in {<<"1">>, <<"9">>, <<>>}}

----------------------------------------------------------------------------
(* Specification of the pagination policy: raw _count and _offset strings  *)
(* of every shape, a few filter sets                                       *)

PagAlphabet == {"0", "1", "9", "-"}

PagExtra ==
    {<<" ", "7">>, <<"7", " ">>, <<"+", "5">>, <<"1", "_", "0">>, <<"1", "_">>,
     <<"x">>, <<"1", " ", "1">>, <<"0", "7">>}

PagCounts == Strings(PagAlphabet, MaxRawLen) \cup PagExtra

PagOffsets == {<<"0">>, <<"2">>, <<"-", "1">>, <<"x">>, <<>>}

PagFilters ==
    {EmptyMap,
     "status" :> Str("finished"),
     ("patient" :> <<"1">>) @@ ("date" :> <<"2", "4">>) @@ ("bogus" :> <<"x">>)}

PagRequests ==
    {Request(r, EmptyMap, c @@ o @@ f) :
        r \in Resources,
        c \in Optional("_count", PagCounts),
        o \in Optional("_offset", PagOffsets),
        f \in PagFilters}

ReceivePag ==
    /\ pc = "idle"
    /\ \E rq \in PagRequests \cup FetchRequests : lambda_handler(rq)
    /\ UNCHANGED aux

InitPag == InitWith({Tables(MaxDocs)})

NextPag == ReceivePag \/ CountQuery \/ PageQuery \/ FetchQuery \/ Return

SpecPag == InitPag /\ [][NextPag]_vars

----------------------------------------------------------------------------
(* Claims on the pagination policy *)

\* the invocation is a search whose pagination was accepted
Searching == pc \in {"count", "page"}

\* the values bound to LIMIT and OFFSET: the last two of query_params
LimitValue == query_params[Len(query_params) - 1]

OffsetValue == query_params[Len(query_params)]

QSP == event.queryStringParameters

\* a decimal numeral as str() writes a positive int: digits, no leading zero
Canonical(s) ==
    /\ s # <<>>
    /\ s[1] # "0"
    /\ \A i \in 1..Len(s) : IsDigit(s[i])

PageCalls ==
    {i \in 1..Len(calls) :
        \E k \in 1..Len(calls[i].sql.tail) : calls[i].sql.tail[k] = LimitOffset}

\* C2: every executed page query has 0 <= LIMIT <= 1000 and OFFSET >= 0.
C2_LimitOffsetInRange ==
    \A i \in PageCalls :
        LET v == calls[i].params.values
        IN  /\ 0 <= IntOf(v[Len(v) - 1])
            /\ IntOf(v[Len(v) - 1]) <= MaxCount
            /\ 0 <= IntOf(v[Len(v)])

\* no digit at all: not an integer under any reading
NoDigit(s) == \A i \in 1..Len(s) : ~IsDigit(s[i])

BadRaw(params, key) ==
    Has(params, key) /\ (NoDigit(params[key]) \/ ~IntParses(params[key]))

IsSearchRequest == pc # "idle" /\ ~Truthy(event.pathParameters, IdKey(resource))

\* seq holds the words of sub, adjacent and in order
Contains(seq, sub) ==
    \E i \in 0..(Len(seq) - Len(sub)) :
        \A k \in 1..Len(sub) : seq[i + k] = sub[k]

\* C3: a search whose _count or _offset is present and is no integer ends
\* with 400, issue code "invalid", diagnostics containing "Invalid
\* pagination", and no execute_query call, whatever the other filters.
C3_InvalidPagination400 ==
    IsSearchRequest /\ (BadRaw(QSP, "_count") \/ BadRaw(QSP, "_offset")) =>
        /\ pc = "done"
        /\ response.statusCode = 400
        /\ response.body.resourceType = "OperationOutcome"
        /\ Len(response.body.issue) = 1
        /\ response.body.issue[1].code = "invalid"
        /\ Contains(response.body.issue[1].diagnostics, <<"Invalid", "pagination">>)
        /\ calls = <<>>

\* C3 witness: 400 for a bad _offset with a good _count and other filters
C3_Witness ==
    /\ pc = "done"
    /\ IsSearchRequest
    /\ Has(QSP, "_count") /\ IntParses(QSP["_count"])
    /\ BadRaw(QSP, "_offset")
    /\ Truthy(QSP, "patient")
    /\ response.statusCode = 400
    /\ calls = <<>>

----------------------------------------------------------------------------
(* Specification of the search translation: every combination of a few     *)
(* values per filter, over warehouses of 0..MaxDocs rows per table         *)

SearchPaging ==
    {EmptyMap,
     ("_count" :> <<"1">>) @@ ("_offset" :> <<"1">>),
     ("_count" :> <<"2">>) @@ ("_offset" :> <<"0">>)}

SearchPatients == {<<>>, <<"1">>, <<"2", "1">>, <<"_">>}

SearchDates == {<<>>, <<"2", "4">>}

SearchCodes ==
    {<<>>, <<"A">>, <<"A", ",", "B">>, <<"B", ",", " ", "A">>,
     <<"A", ",", "B", ",", "A", "B">>}

\* keys that are no search parameter of the resource
UnknownKeys(r) ==
    {EmptyMap, "bogus" :> <<"x">>,
     IF r = "Encounter" THEN "code" :> <<"B">> ELSE "class" :> Str("EMER")}

EncounterSearches ==
    {Request("Encounter", EmptyMap, pg @@ pa @@ st @@ da @@ cl @@ un) :
        pg \in SearchPaging,
        pa \in Optional("patient", SearchPatients),
        st \in Optional("status", {<<>>, Str("finished")}),
        da \in Optional("date", SearchDates),
        cl \in Optional("class", {<<>>, Str("AMB")}),
        un \in UnknownKeys("Encounter")}

ObservationSearches ==
    {Request("Observation", EmptyMap, pg @@ pa @@ co @@ da @@ ca @@ st @@ un) :
        pg \in SearchPaging,
        pa \in Optional("patient", SearchPatients),
        co \in Optional("code", SearchCodes),
        da \in Optional("date", SearchDates),
        ca \in Optional("category", {<<>>, Str("laboratory")}),
        st \in Optional("status", {<<>>, Str("final")}),
        un \in UnknownKeys("Observation")}

ReceiveSearch ==
    /\ pc = "idle"
    /\ \E rq \in EncounterSearches \cup ObservationSearches \cup FetchRequests :
           lambda_handler(rq)
    /\ UNCHANGED aux

InitSearch == InitWith({Tables(0), Tables(MaxDocs)})

NextSearch == ReceiveSearch \/ CountQuery \/ PageQuery \/ FetchQuery \/ Return

SpecSearch == InitSearch /\ [][NextSearch]_vars

----------------------------------------------------------------------------
(* Claims on the search translation *)

\* the search parameters of each resource type (spec, section 6)
KnownKeys(r) ==
    IF r = "Encounter" THEN {"patient", "status", "date", "class"}
    ELSE {"patient", "code", "date", "category", "status"}

\* the conditions joined by AND in a WHERE clause
Conjuncts(where) ==
    IF where = <<>> THEN 0
    ELSE 1 + Cardinality({i \in 1..Len(where) : where[i] = "AND"})

\* the statements of the invocation: those about to run and those that ran
Statements ==
    (IF Searching
     THEN {CountSql(resource, conditions), PageSql(resource, conditions)}
     ELSE {})
    \cup {calls[i].sql : i \in 1..Len(calls)}

SearchStatements == {q \in Statements : q.tail # <<LimitOne>>}

\* C4 as claimed: one condition per known filter key present in the mapping.
C4_OnePerKeyPresent ==
    IsSearchRequest =>
        \A q \in SearchStatements :
            Conjuncts(q.where) =
                Cardinality({k \in KnownKeys(resource) : k \in DOMAIN QSP})

\* C4 amended: one condition per known filter key present with a non-empty
\* value; unknown keys and empty values add none.
C4_OnePerNonEmptyKey ==
    IsSearchRequest =>
        \A q \in SearchStatements :
            Conjuncts(q.where) =
                Cardinality({k \in KnownKeys(resource) :
                                k \in DOMAIN QSP /\ QSP[k] # <<>>})

\* C4 witness: an Encounter search with three known keys, one of them empty,
\* and an unknown key, ran its count query with two conditions
C4_Witness ==
    /\ resource = "Encounter"
    /\ Len(calls) >= 1
    /\ DOMAIN QSP = {"status", "class", "date", "code"}
    /\ QSP["date"] = <<>>
    /\ Conjuncts(calls[1].sql.where) = 2

\* what a predicate means for a document: its single condition, or for the
\* OR group that the document's code equals one of the tokens
PredSat(p, doc) ==
    IF Len(p.cond) = 1
    THEN TestCond(p.cond[1], p.binds[1], doc)
    ELSE /\ "code.coding[0].code" \in DOMAIN doc
         /\ \E k \in 1..Len(p.binds) : doc["code.coding[0].code"] = p.binds[k]

\* the rows of the resource's table that satisfy every emitted predicate
MatchSet ==
    LET rows  == store[TableName(resource)]
        preds == Predicates(resource, QSP)
    IN  {i \in 1..Len(rows) :
            \A j \in 1..Len(preds) : PredSat(preds[j], rows[i].doc)}

MatchDocs == {store[TableName(resource)][i].doc : i \in MatchSet}

ResultDocs == {parse_record(results[i].RECORD_CONTENT) : i \in 1..Len(results)}

\* how many of n ordered rows fall in [offset, offset + count)
Window(n) == Cardinality({i \in 1..n : offset < i /\ i <= offset + count})

Search200 == pc = "done" /\ IsSearchRequest /\ response.statusCode = 200

\* C7: the count statement counts, and the page statement returns from,
\* exactly the documents that satisfy the conjunction of all predicates, the
\* OR group being one predicate of that conjunction.
C7_ConjunctionOfPredicates ==
    /\ IsSearchRequest /\ count_results # <<>> =>
           count_results[1].TOTAL = Cardinality(MatchSet)
    /\ Search200 =>
           /\ ResultDocs \subseteq MatchDocs
           /\ Len(results) = Window(Cardinality(MatchSet))
           /\ Cardinality(ResultDocs) = Len(results)

\* C7 witness: patient AND (code OR code) AND status selected no document
\* although a document satisfies the second code and the status
C7_Witness ==
    /\ Search200
    /\ resource = "Observation"
    /\ DOMAIN QSP = {"patient", "code", "status"}
    /\ QSP["patient"] = <<"2", "1">>
    /\ QSP["code"] = <<"A", ",", "B">>
    /\ QSP["status"] # <<>>
    /\ Len(store[TableName(resource)]) > 0
    /\ response.body.total = 0
    /\ response.body.entry = <<>>

\* C8: with patient=P every returned resource has subject Patient/P, and
\* total counts only those.
C8_PatientExact ==
    Search200 /\ Truthy(QSP, "patient") =>
        LET rows == store[TableName(resource)]
            own  == {i \in MatchSet :
                        rows[i].doc["subject.reference"] = Subject(QSP["patient"])}
        IN  /\ \A i \in 1..Len(response.body.entry) :
                   response.body.entry[i].resource["subject.reference"]
                       = Subject(QSP["patient"])
            /\ response.body.total = Cardinality(own)

\* the request's filters without the pagination keys
FiltersOnly(params) ==
    [k \in DOMAIN params \ {"_count", "_offset"} |-> params[k]]

CountCalls ==
    {i \in 1..Len(calls) : calls[i].sql.select = "COUNT(*) as total"}

\* C9: the count statement and its bound values are those of the filters
\* alone (the page statement's values without the last two), and total is
\* the number of documents matching the filters, whatever _count and _offset.
C9_TotalIgnoresPaging ==
    /\ \A i \in CountCalls :
           LET preds == Predicates(resource, FiltersOnly(QSP))
           IN  /\ calls[i].sql = CountSql(resource, ConditionsOf(preds))
               /\ calls[i].params.values = BindsOf(preds)
               /\ Len(query_params) = Len(BindsOf(preds)) + 2
               /\ \A k \in 1..Len(BindsOf(preds)) :
                      query_params[k] = calls[i].params.values[k]
    /\ Search200 => response.body.total = Cardinality(MatchSet)

\* C9 witness: a page of one entry from offset 1 reports the total of 2
C9_Witness ==
    /\ Search200
    /\ Has(QSP, "_offset")
    /\ QSP["_offset"] = <<"1">>
    /\ Truthy(QSP, "status")
    /\ response.body.total = 2
    /\ Len(response.body.entry) = 1

----------------------------------------------------------------------------
(* Specification of the code filter: every code value over a small         *)
(* alphabet, alone or between a patient and a status filter                *)

CodeAlphabet == {"A", "B", ",", " "}

CodeValues ==
    Strings(CodeAlphabet, MaxCodeLen)
    \cup {<<"A", ",", "B", ",", "A", "B">>, <<" ", "A", " ", ",", "B", ",", "B", "A">>}

CodeFilters ==
    {EmptyMap, ("patient" :> <<"1">>) @@ ("status" :> Str("final"))}

CodeRequests ==
    {Request("Observation", EmptyMap, co @@ f) :
        co \in Optional("code", CodeValues), f \in CodeFilters}
    \cup {Request("Encounter", EmptyMap, "code" :> <<"A", ",", "B">>)}

ReceiveCode ==
    /\ pc = "idle"
    /\ \E rq \in CodeRequests \cup FetchRequests : lambda_handler(rq)
    /\ UNCHANGED aux

InitCode == InitWith({Tables(MaxDocs)})

NextCode == ReceiveCode \/ CountQuery \/ PageQuery \/ FetchQuery \/ Return

SpecCode == InitCode /\ [][NextCode]_vars

----------------------------------------------------------------------------
(* Claims on the code filter *)

\* the position of the k-th comma of s
CommaAt(s, k) ==
    CHOOSE p \in 1..Len(s) :
        /\ s[p] = ","
        /\ Cardinality({j \in 1..(p - 1) : s[j] = ","}) = k - 1

NumCommas(s) == Cardinality({j \in 1..Len(s) : s[j] = ","})

\* the i-th comma-separated token of s without the blanks around it
Token(s, i) ==
    LET lo   == IF i = 1 THEN 1 ELSE CommaAt(s, i - 1) + 1
        hi   == IF i = NumCommas(s) + 1 THEN Len(s) ELSE CommaAt(s, i) - 1
        ink  == {p \in lo..hi : s[p] # " "}
    IN  IF ink = {} THEN <<>>
        ELSE SubSeq(s, CHOOSE p \in ink : \A q \in ink : p <= q,
                       CHOOSE p \in ink : \A q \in ink : q <= p)

Tokens(s) == [i \in 1..(NumCommas(s) + 1) |-> Token(s, i)]

NonEmptyTokens(s) == SelectSeq(Tokens(s), LAMBDA t : t # <<>>)

CodeSearch == Searching /\ resource = "Observation" /\ Truthy(QSP, "code")

\* where the code block appends: after the patient block, if that ran
CodeAt == IF Truthy(QSP, "patient") THEN 2 ELSE 1

\* the fragments of conditions that test the code
CodeConjuncts ==
    {j \in 1..Len(conditions) :
        \E t \in 1..Len(conditions[j]) : conditions[j][t] = CondCode}

\* ( code = %s OR code = %s ... ) with n equality tests
IsOrOfEquals(fragment, n) ==
    /\ Len(fragment) = 2 * n + 1
    /\ fragment[1] = "("
    /\ fragment[2 * n + 1] = ")"
    /\ \A i \in 1..n : fragment[2 * i] = CondCode
    /\ \A i \in 1..(n - 1) : fragment[2 * i + 1] = "OR"

\* the values bound to the code conjunct, given how many there should be
CodeBinds(n) == SubSeq(query_params, CodeAt, CodeAt + n - 1)

\* the bound values that follow the code conjunct's: status, LIMIT, OFFSET
AfterCode == (IF Truthy(QSP, "status") THEN 1 ELSE 0) + 2

\* C5: a code value of N comma-separated tokens gives exactly one conjunct
\* for the code: an OR of N equality tests when N >= 2, one equality test
\* when N = 1, bound to the N trimmed tokens in input order.
C5_OrOfEquals ==
    CodeSearch /\ (\A i \in 1..Len(Tokens(QSP["code"])) : Tokens(QSP["code"])[i] # <<>>) =>
        LET toks == Tokens(QSP["code"])
            n    == Len(toks)
        IN  /\ CodeConjuncts = {CodeAt}
            /\ IF n = 1 THEN conditions[CodeAt] = <<CondCode>>
               ELSE IsOrOfEquals(conditions[CodeAt], n)
            /\ CodeBinds(n) = toks
            /\ Len(query_params) = (CodeAt - 1) + n + AfterCode

\* C5 witness: code=" A ,B,BA" between patient and status became one OR
\* group of three tests bound to A, B, BA
C5_Witness ==
    /\ CodeSearch
    /\ QSP["code"] = <<" ", "A", " ", ",", "B", ",", "B", "A">>
    /\ Truthy(QSP, "patient")
    /\ Len(conditions) = 3
    /\ IsOrOfEquals(conditions[2], 3)
    /\ CodeBinds(3) = <<<<"A">>, <<"B">>, <<"B", "A">>>>

\* C6: empty tokens are discarded: the code conjunct is built from the
\* non-empty trimmed tokens only, so no bound code value is empty and a value
\* with one non-empty token (such as "A,") gives a single equality test.
C6_EmptyTokensDiscarded ==
    CodeSearch /\ NonEmptyTokens(QSP["code"]) # <<>> =>
        LET toks == NonEmptyTokens(QSP["code"])
            n    == Len(toks)
        IN  /\ CodeBinds(n) = toks
            /\ Len(query_params) = (CodeAt - 1) + n + AfterCode
            /\ n = 1 => conditions[CodeAt] = <<CondCode>>

----------------------------------------------------------------------------
(* Specification of the result mapping: the handlers over an executor that *)
(* is a black box returning any sequence of row mappings, as the test      *)
(* doubles of the handlers' tests do                                       *)

CannedRows(r) ==
    LET rows == Tables(MaxDocs)[TableName(r)]
    IN  {Wire(rows[i]) : i \in 1..Len(rows)}

CannedCounts ==
    {Raised, Returned(<<>>)} \cup {Returned(<<[TOTAL |-> n]>>) : n \in 0..MaxTotal}

CannedPages(r) ==
    {Raised} \cup
    {Returned(rows) : rows \in UNION {[1..k -> CannedRows(r)] : k \in 0..MaxRows}}

CannedFetches(r) ==
    {Raised, Returned(<<>>)} \cup {Returned(<<row>>) : row \in CannedRows(r)}

CountQueryCanned ==
    /\ pc = "count"
    /\ \E out \in CannedCounts : CountDone(out)
    /\ UNCHANGED aux

PageQueryCanned ==
    /\ pc = "page"
    /\ \E out \in CannedPages(resource) : PageDone(out)
    /\ UNCHANGED aux

FetchQueryCanned ==
    /\ pc = "fetch"
    /\ \E out \in CannedFetches(resource) : FetchDone(out)
    /\ UNCHANGED aux

BundleRequests ==
    {Request(r, EmptyMap, f) :
        r \in Resources,
        f \in {EmptyMap, "status" :> Str("finished"),
               ("_count" :> <<"2">>) @@ ("_offset" :> <<"1">>)}}

ReceiveBundle ==
    /\ pc = "idle"
    /\ \E rq \in BundleRequests \cup FetchRequests : lambda_handler(rq)
    /\ UNCHANGED aux

InitBundle == InitWith({Tables(0)})

NextBundle ==
    ReceiveBundle \/ CountQueryCanned \/ PageQueryCanned \/ FetchQueryCanned \/ Return

SpecBundle == InitBundle /\ [][NextBundle]_vars

----------------------------------------------------------------------------
(* Claims on the result mapping *)

\* resource r is the document the row holds: the row's object itself, or
\* the object whose JSON text the row holds
RowHolds(row, r) ==
    IF row.RECORD_CONTENT.isStr
    THEN JsonText(r) = row.RECORD_CONTENT.text
    ELSE r = row.RECORD_CONTENT.value

\* C10: a successful search returns 200 with a searchset Bundle holding one
\* {resource: r} entry per row of the page query, in row order, and the
\* TOTAL of the first row of the count query as total, 0 if it has no row.
C10_BundleOfRows ==
    /\ pc = "done" /\ IsSearchRequest /\ Len(calls) = 2 =>
           response.statusCode \in {200, 500}
    /\ Search200 =>
           /\ Len(calls) = 2
           /\ response.body.resourceType = "Bundle"
           /\ response.body.type = "searchset"
           /\ DOMAIN response.body = {"resourceType", "type", "total", "entry"}
           /\ Len(response.body.entry) = Len(results)
           /\ \A i \in 1..Len(results) :
                  /\ DOMAIN response.body.entry[i] = {"resource"}
                  /\ RowHolds(results[i], response.body.entry[i].resource)
           /\ response.body.total =
                  (IF Len(count_results) = 0 THEN 0 ELSE count_results[1].TOTAL)

\* C10 witness: a Bundle of two different rows, one JSON text and one
\* object, with total 0 because the count query returned no row
C10_Witness ==
    /\ Search200
    /\ Len(results) = 2
    /\ results[1].RECORD_CONTENT.isStr
    /\ ~results[2].RECORD_CONTENT.isStr
    /\ count_results = <<>>
    /\ response.body.total = 0
    /\ Len(response.body.entry) = 2

----------------------------------------------------------------------------
(* Claims on the page size *)

\* C11: in every 200 search response over the warehouse, which returns the
\* rows at positions offset+1 .. offset+count of the ordered matches, the
\* number of entries is at most the normalized count, for every _count that
\* parses as an integer, zero and negative values included.
C11_EntriesAtMostCount ==
    Search200 => Len(response.body.entry) <= count

----------------------------------------------------------------------------
(* Specification of a client paging through a result set: the same filters *)
(* and _count on every request, _offset advancing by _count, until a page  *)
(* comes back short                                                        *)

SweepCounts == {1, 2}

SweepFilters == {EmptyMap, "status" :> Str("finished"), "status" :> Str("final")}

\* the ids of the resources of the Bundle returned
PageIds ==
    [i \in 1..Len(response.body.entry) |-> response.body.entry[i].resource["id"]]

\* the client sends the first request of a sweep, or the next one of the
\* sweep it is in
ReceiveSweep ==
    /\ pc = "idle"
    /\ \E r \in Resources, f \in SweepFilters, c \in SweepCounts :
           LET key == f @@ ("_count" :> StrOf(c))
               off == "_offset" :> StrOf(Len(sweep.got) * c)
           IN  /\ sweep.got # <<>> => r = sweep.resource /\ key = sweep.filters
               /\ lambda_handler(Request(r, EmptyMap, key @@ off))
               /\ sweep' = [resource |-> r, filters |-> key, got |-> sweep.got]
    /\ UNCHANGED <<db, applied, ingestion>>

\* the client takes the page of a 200 response and goes on unless the page
\* is short; it sends the request again after an error
ReturnSweep ==
    /\ Returning
    /\ sweep' = IF response.statusCode # 200 THEN sweep
                ELSE IF Len(PageIds) < count THEN NoSweep
                ELSE [sweep EXCEPT !.got = Append(@, PageIds)]
    /\ UNCHANGED <<db, applied, ingestion>>

InitSweep == InitWith({Tables(MaxDocs)})

NextSweep == ReceiveSweep \/ CountQuery \/ PageQuery \/ ReturnSweep

SpecSweep == InitSweep /\ [][NextSweep]_vars

----------------------------------------------------------------------------
(* Claims on the order of the pages *)

RECURSIVE Flatten(_)
Flatten(seqs) == IF seqs = <<>> THEN <<>> ELSE Head(seqs) \o Flatten(Tail(seqs))

\* the ids the client has received in the sweep, this response included
Seen == Flatten(sweep.got) \o PageIds

\* C12: over an unchanged store and the same filters, the requests with
\* offsets 0, c, 2c, ... and count c return every matching document exactly
\* once: no document is on two pages, and when the short last page has come
\* none was skipped, also when documents share the sort-key value.
C12_EveryMatchOnce ==
    Search200 =>
        /\ \A i, j \in 1..Len(Seen) : i # j => Seen[i] # Seen[j]
        /\ Len(PageIds) < count =>
               {Seen[i] : i \in 1..Len(Seen)} = {d["id"] : d \in MatchDocs}

----------------------------------------------------------------------------
(* Claims on the order of the predicates *)

\* the search parameter a condition of the WHERE clause was emitted for
KeyOf(cond) ==
    CASE cond = <<CondSubject>> -> "patient"
      [] cond = <<CondStatus>> -> "status"
      [] cond \in {<<CondPeriodStart>>, <<CondEffective>>} -> "date"
      [] cond = <<CondClass>> -> "class"
      [] cond = <<CondCategory>> -> "category"
      [] OTHER -> "code"

Keys == [i \in 1..Len(conditions) |-> KeyOf(conditions[i])]

\* the values the request asks to compare with, for one search parameter
ValuesFor(key) ==
    LET v == QSP[key]
    IN  CASE key = "patient" -> <<<<"%", "P", "a", "t", "i", "e", "n", "t", "/">> \o v \o <<"%">>>>
          [] key = "date" -> <<v \o <<"%">>>>
          [] key = "code" -> [i \in 1..(NumCommas(v) + 1) |-> Strip(Token(v, i))]
          [] OTHER -> <<v>>

\* the placeholders of one condition
NumPlaceholders(cond) == Cardinality({j \in 1..Len(cond) : ~IsOperator(cond[j])})

\* the bound values of conditions 1..n
RECURSIVE ValuesUpTo(_)
ValuesUpTo(n) == IF n = 0 THEN <<>> ELSE ValuesUpTo(n - 1) \o ValuesFor(Keys[n])

\* every condition has as many placeholders as values, and the bound values
\* are the conditions' values in the order of the conditions, then LIMIT
\* and OFFSET
Aligned ==
    /\ \A i \in 1..Len(conditions) :
           NumPlaceholders(conditions[i]) = Len(ValuesFor(Keys[i]))
    /\ SubSeq(query_params, 1, Len(query_params) - 2) = ValuesUpTo(Len(conditions))

Precedes(a, b) ==
    \A i, j \in 1..Len(Keys) : Keys[i] = a /\ Keys[j] = b => i < j

\* the order in which each search_* function tests its parameters
DeclaredOrder(r) ==
    IF r = "Encounter" THEN <<"patient", "status", "date", "class">>
    ELSE <<"patient", "code", "date", "category", "status">>

\* C13 as stated: in both handlers the patient predicate precedes the status
\* predicate and the status predicate precedes the date predicate, and the
\* i-th bound value belongs to the i-th placeholder.
C13_PatientStatusDate ==
    Searching =>
        /\ Precedes("patient", "status")
        /\ Precedes("status", "date")
        /\ Aligned

\* C13 amended: the predicates are emitted in the fixed order of the
\* resource type, patient, status, date, class for Encounter and patient,
\* code, date, category, status for Observation, one per parameter with a
\* non-empty value, and the i-th bound value belongs to the i-th placeholder.
C13_DeclaredOrderAligned ==
    Searching =>
        /\ Keys = SelectSeq(DeclaredOrder(resource), LAMBDA k : Truthy(QSP, k))
        /\ Aligned

\* C13 witness: an Observation search with all five filters, the code
\* filter with two codes: six placeholders, status last
C13_Witness ==
    /\ Searching
    /\ resource = "Observation"
    /\ Keys = <<"patient", "code", "date", "category", "status">>
    /\ Len(conditions[2]) > 1
    /\ Len(query_params) = 8
    /\ query_params[3] # query_params[2]
    /\ query_params[6] = QSP["status"]

----------------------------------------------------------------------------
(* Specification of the response formatter on its own: error_response      *)
(* applied to every status code around the two thresholds of its issue code *)

\* how far below 400 and above 500 the status codes tried reach
StatusSpan == 5

StatusCodes == (400 - StatusSpan)..(500 + StatusSpan)

Messages == {MsgInternal, MsgInvalidPagination, MsgNotFound("Encounter")}

handler_vars == <<pc, resource, event, store, count, offset, conditions,
                  query_params, count_results, results, response, calls>>

ApplyErrorResponse ==
    /\ \E status_code \in StatusCodes, message \in Messages :
           applied' = [fn |-> "error_response",
                       status_code |-> status_code, message |-> message,
                       result |-> error_response(status_code, message)]
    /\ UNCHANGED <<handler_vars, db, sweep, ingestion>>

InitError == InitWith({Tables(0)})

NextError == ApplyErrorResponse

SpecError == InitError /\ [][NextError]_vars

----------------------------------------------------------------------------
(* Claims on the response formatter *)

\* C14: error_response(statusCode, message) returns that statusCode, the
\* Content-Type application/fhir+json and an OperationOutcome with exactly
\* one issue, of severity "error", whose diagnostics is the message and whose
\* code is "processing" from 500 up, "not-found" for 404, "invalid" otherwise.
C14_ErrorEnvelope ==
    applied.fn = "error_response" =>
        LET r == applied.result
            c == applied.status_code
        IN  /\ r.statusCode = c
            /\ r.headers.ContentType = "application/fhir+json"
            /\ r.body.resourceType = "OperationOutcome"
            /\ DOMAIN r.body = {"resourceType", "issue"}
            /\ Len(r.body.issue) = 1
            /\ r.body.issue[1].severity = "error"
            /\ r.body.issue[1].diagnostics = applied.message
            /\ c >= 500 => r.body.issue[1].code = "processing"
            /\ c = 404 => r.body.issue[1].code = "not-found"
            /\ c < 500 /\ c # 404 => r.body.issue[1].code = "invalid"

\* C14 witness: the formatter applied to 500, the lowest "processing" code
C14_Witness ==
    /\ applied.fn = "error_response"
    /\ applied.status_code = 500
    /\ applied.message = MsgInternal
    /\ applied.result.body.issue[1].code = "processing"
    /\ applied.result.body.issue[1].diagnostics = MsgInternal

----------------------------------------------------------------------------
(* Specification of the fetch by id: the three resource handlers over the  *)
(* warehouse, with ids that exist, do not exist or are missing             *)

\* longest id drawn from IdAlphabet
MaxIdLen == 2

IdAlphabet == {"1", "2", "9"}

AllResources == Resources \cup {"Patient"}

FetchByIdRequests ==
    {Request(r, IdKey(r) :> id, EmptyMap) :
        r \in AllResources, id \in Strings(IdAlphabet, MaxIdLen) \ {<<>>}}
    \cup {Request("Patient", p, EmptyMap) : p \in Optional("patientId", {<<>>})}

ReceiveFetch ==
    /\ pc = "idle"
    /\ \E rq \in FetchByIdRequests : lambda_handler(rq)
    /\ UNCHANGED aux

InitFetch == InitWith({Tables(0), Tables(MaxDocs)})

NextFetch == ReceiveFetch \/ FetchQuery \/ Return

SpecFetch == InitFetch /\ [][NextFetch]_vars

----------------------------------------------------------------------------
(* Claims on the fetch by id *)

\* the invocation is a fetch by id whose query has returned
Fetched ==
    /\ pc = "done"
    /\ Truthy(event.pathParameters, IdKey(resource))
    /\ Len(calls) = 1
    /\ ~calls[1].raised

\* body is an OperationOutcome whose first issue has the code
IsOutcome(body, code) ==
    /\ "resourceType" \in DOMAIN body
    /\ body.resourceType = "OperationOutcome"
    /\ "issue" \in DOMAIN body
    /\ Len(body.issue) >= 1
    /\ body.issue[1].code = code

\* C15: for Patient, Encounter and Observation, a fetch by id whose query
\* returns no row yields 404 with an OperationOutcome whose first issue has
\* the code "not-found", and a fetch whose query returns a row yields 200
\* with the resource of the row as body.
C15_FetchByIdOutcome ==
    Fetched =>
        /\ results = <<>> =>
               /\ response.statusCode = 404
               /\ IsOutcome(response.body, "not-found")
        /\ results # <<>> =>
               /\ response.statusCode = 200
               /\ RowHolds(results[1], response.body)

----------------------------------------------------------------------------
(* Specification of the handlers over any executor behaviour: the executor *)
(* is a black box that raises, returns no row, or returns rows whose       *)
(* RECORD_CONTENT is a document, the JSON text of a document, the JSON     *)
(* text of a string, or a text that is not JSON                            *)

RowValues(r) ==
    LET rows == Tables(MaxDocs)[TableName(r)]
        d    == rows[1].doc
    IN  {Wire(rows[i]).RECORD_CONTENT : i \in 1..Len(rows)}
        \cup {PyStr(StringText(JsonText(d))), PyStr(StringText(MalformedText)),
              PyStr(MalformedText)}

AnyRows(r) == {[RECORD_CONTENT |-> x] : x \in RowValues(r)}

AnyPages(r) ==
    {Raised} \cup
    {Returned(rows) : rows \in UNION {[1..k -> AnyRows(r)] : k \in 0..MaxRows}}

AnyFetches(r) ==
    {Raised, Returned(<<>>)} \cup {Returned(<<row>>) : row \in AnyRows(r)}

PageQueryAny ==
    /\ pc = "page"
    /\ \E out \in AnyPages(resource) : PageDone(out)
    /\ UNCHANGED aux

FetchQueryAny ==
    /\ pc = "fetch"
    /\ \E out \in AnyFetches(resource) : FetchDone(out)
    /\ UNCHANGED aux

RowsRequests ==
    BundleRequests \cup FetchRequests
    \cup {Request(r, EmptyMap, "_count" :> <<"x">>) : r \in Resources}

ReceiveRows ==
    /\ pc = "idle"
    /\ \E rq \in RowsRequests : lambda_handler(rq)
    /\ UNCHANGED aux

InitRows == InitWith({Tables(0)})

NextRows ==
    ReceiveRows \/ CountQueryCanned \/ PageQueryAny \/ FetchQueryAny \/ Return

SpecRows == InitRows /\ [][NextRows]_vars

----------------------------------------------------------------------------
(* Claims on the failures of the executor and of the rows *)

\* C16: when execute_query raises, in the count query, the page query or
\* the fetch, the handler returns 500 with an OperationOutcome of one issue,
\* severity "error", code "processing", diagnostics exactly "Internal Server
\* Error"; no Bundle is returned even if the count query had succeeded, and
\* no query is issued after the failed one.
C16_ExecutorFailure500 ==
    \A i \in 1..Len(calls) :
        calls[i].raised =>
            /\ pc = "done"
            /\ i = Len(calls)
            /\ response.statusCode = 500
            /\ response.body.resourceType = "OperationOutcome"
            /\ DOMAIN response.body = {"resourceType", "issue"}
            /\ Len(response.body.issue) = 1
            /\ response.body.issue[1].severity = "error"
            /\ response.body.issue[1].code = "processing"
            /\ response.body.issue[1].diagnostics = <<"Internal", "Server", "Error">>

\* C16 witness: the page query raises after the count query returned a total
C16_Witness ==
    /\ pc = "done"
    /\ Len(calls) = 2
    /\ ~calls[1].raised /\ calls[2].raised
    /\ count_results # <<>> /\ count_results[1].TOTAL > 0
    /\ response.statusCode = 500

\* the invocation is a fetch by id
IsFetchRequest == pc # "idle" /\ Truthy(event.pathParameters, IdKey(resource))

\* C17: for every event and every executor behaviour the Encounter and
\* Observation lambda_handler ends, after at most two queries, by returning
\* a response (no exception leaves it) whose statusCode is 200, 400, 404 or
\* 500 and whose body is valid JSON: a Bundle (search) or the resource of the
\* row (fetch) when the status is 200, an OperationOutcome otherwise.
C17_AlwaysAResponse ==
    /\ pc # "idle" => Len(calls) <= 2
    /\ pc = "done" =>
           /\ response.statusCode \in {200, 400, 404, 500}
           /\ ~JSONDecodeError(json_dumps(response.body))
           /\ json_loads(json_dumps(response.body)) = response.body
           /\ response.statusCode = 200 /\ IsSearchRequest =>
                  response.body.resourceType = "Bundle"
           /\ response.statusCode = 200 /\ IsFetchRequest =>
                  /\ Len(results) = 1
                  /\ response.body = parse_record(results[1].RECORD_CONTENT)
           /\ response.statusCode # 200 =>
                  response.body.resourceType = "OperationOutcome"

\* C17 witness: a fetch whose row holds a text that is not JSON ends with
\* a 500 OperationOutcome
C17_Witness ==
    /\ pc = "done"
    /\ IsFetchRequest
    /\ Len(calls) = 1 /\ ~calls[1].raised
    /\ Len(results) = 1
    /\ results[1].RECORD_CONTENT.isStr
    /\ results[1].RECORD_CONTENT.text.kind = "malformed"
    /\ response.statusCode = 500
    /\ response.body.resourceType = "OperationOutcome"

----------------------------------------------------------------------------
(* Claims on parse_record *)

\* a parsed value handed to parse_record again: a str stays a str, a
\* document is a dict
AsRecord(value) == IF IsPyStr(value) THEN value ELSE PyDict(value)

\* the row value is a document or the JSON text of a document
IsDocument(x) == ~x.isStr \/ x.text.kind = "object"

\* parse_record applied to its own result gives that result
Idempotent(x) ==
    LET y == parse_record(x)
    IN  /\ ~ParseRaises(AsRecord(y))
        /\ parse_record(AsRecord(y)) = y

\* parse_record of the row gives the document it holds, and the JSON text of
\* that document and the document itself parse to the same object
SameParsed(row) ==
    LET d == parse_record(row.RECORD_CONTENT)
    IN  /\ RowHolds(row, d)
        /\ parse_record(PyStr(JsonText(d))) = parse_record(PyDict(d))

\* the rows with every value replaced by what parse_record makes of it
PreParsed(rows) ==
    [i \in 1..Len(rows) |->
        [RECORD_CONTENT |-> AsRecord(parse_record(rows[i].RECORD_CONTENT))]]

NotJson(row) ==
    row.RECORD_CONTENT.isStr /\ row.RECORD_CONTENT.text.kind = "malformed"

\* C19: if a row of the page query, or the row of a fetch by id, holds text
\* that is not valid JSON, the request ends with status 500 and an
\* OperationOutcome of code "processing", never with 200 or 400; a 200 search
\* response has as many entries as rows returned.
C19_BadRow500 ==
    /\ pc = "done" /\ (\E i \in 1..Len(results) : NotJson(results[i])) =>
           /\ response.statusCode = 500
           /\ IsOutcome(response.body, "processing")
    /\ Search200 => Len(response.body.entry) = Len(results)

\* C19 witness: a page of two rows, the first a document and the second
\* not JSON, after a count query that returned a total
C19_Witness ==
    /\ pc = "done"
    /\ IsSearchRequest
    /\ Len(calls) = 2 /\ ~calls[1].raised /\ ~calls[2].raised
    /\ count_results # <<>>
    /\ Len(results) = 2
    /\ ~NotJson(results[1]) /\ NotJson(results[2])
    /\ response.statusCode = 500

----------------------------------------------------------------------------
(* Specification of execute_query step by step: the connection, the        *)
(* cursor, execute, fetchall and the two close calls, each of which may     *)
(* raise, under the three handlers                                          *)

\* the step after a step of execute_query without try/finally: an exception
\* leaves the function at once
NextStepNoFinally(step, raised) ==
    IF raised THEN "returned"
    ELSE CASE step = "connect" -> "cursor"
           [] step = "cursor" -> "execute"
           [] step = "execute" -> "fetchall"
           [] step = "fetchall" -> "cursor_close"
           [] step = "cursor_close" -> "conn_close"
           [] step = "conn_close" -> "returned"

\* the step after a step of execute_query: the inner finally closes the
\* cursor, the outer finally closes the connection
NextStep(step, raised) ==
    CASE step = "connect" -> IF raised THEN "returned" ELSE "cursor"
      [] step = "cursor" -> IF raised THEN "conn_close" ELSE "execute"
      [] step = "execute" -> IF raised THEN "cursor_close" ELSE "fetchall"
      [] step = "fetchall" -> "cursor_close"
      [] step = "cursor_close" -> "conn_close"
      [] step = "conn_close" -> "returned"

\* the statement and the bound values of the query the handler is at
CurrentQuery ==
    CASE pc = "count" -> [sql |-> CountSql(resource, conditions),
                          args |-> CountArgs(query_params)]
      [] pc = "page" -> [sql |-> PageSql(resource, conditions),
                         args |-> Tuple(query_params)]
      [] pc = "fetch" -> [sql |-> FetchSql(resource), args |-> FetchArgs]

\* one step of execute_query has run; it raised or not
Stepped(step, raised, opened, created, rows) ==
    db' = [pc      |-> NextStep(step, raised),
           conns   |-> db.conns + opened,
           cursors |-> db.cursors + created,
           exc     |-> db.exc \/ raised,
           failed  |-> IF raised /\ db.failed = "none" THEN step ELSE db.failed,
           rows    |-> rows]

\* conn = SnowflakeConnection().get_connection()
Connect ==
    /\ pc \in {"count", "page", "fetch"}
    /\ db.pc = "idle"
    /\ \E raised \in BOOLEAN :
           Stepped("connect", raised, IF raised THEN 0 ELSE 1, 0, <<>>)
    /\ UNCHANGED <<handler_vars, sweep, applied, ingestion>>

\* cursor = conn.cursor(DictCursor)
Cursor ==
    /\ db.pc = "cursor"
    /\ \E raised \in BOOLEAN :
           Stepped("cursor", raised, 0, IF raised THEN 0 ELSE 1, <<>>)
    /\ UNCHANGED <<handler_vars, sweep, applied, ingestion>>

\* cursor.execute(sql, params)
Execute ==
    /\ db.pc = "execute"
    /\ \E raised \in BOOLEAN :
           /\ Placeholders(CurrentQuery.sql) # Len(CurrentQuery.args.values)
                  => raised
           /\ Stepped("execute", raised, 0, 0, <<>>)
    /\ UNCHANGED <<handler_vars, sweep, applied, ingestion>>

\* return cursor.fetchall()
Fetchall ==
    /\ db.pc = "fetchall"
    /\ \/ Stepped("fetchall", TRUE, 0, 0, <<>>)
       \/ \E rows \in QueryResults(store, CurrentQuery.sql, CurrentQuery.args) :
              Stepped("fetchall", FALSE, 0, 0, rows)
    /\ UNCHANGED <<handler_vars, sweep, applied, ingestion>>

\* finally: cursor.close()
CursorClose ==
    /\ db.pc = "cursor_close"
    /\ \E raised \in BOOLEAN : Stepped("cursor_close", raised, 0, -1, db.rows)
    /\ UNCHANGED <<handler_vars, sweep, applied, ingestion>>

\* finally: conn.close()
ConnClose ==
    /\ db.pc = "conn_close"
    /\ \E raised \in BOOLEAN : Stepped("conn_close", raised, -1, 0, db.rows)
    /\ UNCHANGED <<handler_vars, sweep, applied, ingestion>>

\* what execute_query gave its caller
DbOutcome == IF db.exc THEN Raised ELSE Returned(db.rows)

CountQueryDb ==
    /\ pc = "count" /\ db.pc = "returned"
    /\ CountDone(DbOutcome)
    /\ db' = DbIdle
    /\ UNCHANGED <<sweep, applied, ingestion>>

PageQueryDb ==
    /\ pc = "page" /\ db.pc = "returned"
    /\ PageDone(DbOutcome)
    /\ db' = DbIdle
    /\ UNCHANGED <<sweep, applied, ingestion>>

FetchQueryDb ==
    /\ pc = "fetch" /\ db.pc = "returned"
    /\ FetchDone(DbOutcome)
    /\ db' = DbIdle
    /\ UNCHANGED <<sweep, applied, ingestion>>

DbRequests ==
    {Request(r, IdKey(r) :> id, EmptyMap) :
        r \in AllResources, id \in {<<"1">>, <<"9">>}}
    \cup {Request(r, EmptyMap, f) :
            r \in Resources,
            f \in {EmptyMap, "_count" :> <<"x">>,
                   ("status" :> Str("planned")) @@ ("_count" :> <<"1">>)}}

ReceiveDb ==
    /\ pc = "idle"
    /\ \E rq \in DbRequests : lambda_handler(rq)
    /\ UNCHANGED aux

InitDb == InitWith({Tables(MaxDocs)})

NextDb ==
    \/ ReceiveDb \/ Connect \/ Cursor \/ Execute \/ Fetchall \/ CursorClose
    \/ ConnClose \/ CountQueryDb \/ PageQueryDb \/ FetchQueryDb \/ Return

SpecDb == InitDb /\ [][NextDb]_vars

----------------------------------------------------------------------------
(* Claims on the connections *)

\* C20: every connection execute_query opened and every cursor it created
\* has been closed (close() called on it) when execute_query returns or
\* raises, whichever step raised; after a handler invocation has ended no
\* connection is open, and at most one is open at any moment of a request.
C20_ConnectionsClosed ==
    /\ db.conns \in {0, 1}
    /\ db.cursors \in {0, 1}
    /\ db.cursors <= db.conns
    /\ db.pc \in {"idle", "returned"} => db.conns = 0 /\ db.cursors = 0
    /\ pc \in {"idle", "done"} => db = DbIdle

\* C20 witness: execute_query has raised because cursor.close() raised after
\* the rows were fetched, and the connection has been closed
C20_Witness ==
    /\ pc = "page"
    /\ db.pc = "returned"
    /\ db.exc /\ db.failed = "cursor_close"
    /\ db.rows # <<>>
    /\ db.conns = 0 /\ db.cursors = 0

----------------------------------------------------------------------------
(* Python values of a JSON document, as webhook/handler.py handles them *)

\* a value: t its type; s the characters of a str, the digits of a number
\* or the name of a dict member; items the elements of a list, the members
\* of a dict or the one value of a member
Node(t, s, items) == [t |-> t, s |-> s, items |-> items]

PyNone == Node("null", <<>>, <<>>)

PyInt(n) == Node("num", StrOf(n), <<>>)

PyText(s) == Node("str", s, <<>>)

PyList(items) == Node("list", <<>>, items)

Member(key, value) == Node("member", key, <<value>>)

PyObject(members) == Node("dict", <<>>, members)

\* the members of an object with one member per name: the place of the
\* first, the value of the last
RECURSIVE Dedup(_)
Dedup(ms) ==
    IF ms = <<>> THEN <<>>
    ELSE LET key  == Head(ms).s
             same == SelectSeq(Tail(ms), LAMBDA m : m.s = key)
             rest == SelectSeq(Tail(ms), LAMBDA m : m.s # key)
             kept == IF same = <<>> THEN Head(ms) ELSE same[Len(same)]
         IN  <<kept>> \o Dedup(rest)

\* the value json.loads builds from the value a JSON text spells
RECURSIVE Loaded(_)
Loaded(v) ==
    CASE v.t = "dict" ->
             LET ms == Dedup(v.items)
             IN  PyObject([i \in 1..Len(ms) |->
                              Member(ms[i].s, Loaded(ms[i].items[1]))])
      [] v.t = "list" -> PyList([i \in 1..Len(v.items) |-> Loaded(v.items[i])])
      [] OTHER -> v

\* a request body: None, "", a text that is not JSON, or a JSON text
NoBody == [kind |-> "none", value |-> PyNone]

EmptyBody == [kind |-> "empty", value |-> PyNone]

MalformedBody == [kind |-> "malformed", value |-> PyNone]

JsonBody(v) == [kind |-> "json", value |-> v]

\* json.loads(body) of a JSON text
loads(body) == Loaded(body.value)

\* key in d, d a dict
HasKey(d, key) == \E i \in 1..Len(d.items) : d.items[i].s = key

\* d.get(key, default), d a dict
Lookup(d, key, default) ==
    IF HasKey(d, key)
    THEN d.items[CHOOSE i \in 1..Len(d.items) : d.items[i].s = key].items[1]
    ELSE default

\* v.get is an AttributeError
NoGet(v) == v.t # "dict"

\* not v
Falsy(v) ==
    CASE v.t = "null" -> TRUE
      [] v.t = "num" -> v.s = <<"0">>
      [] v.t = "str" -> v.s = <<>>
      [] OTHER -> v.items = <<>>

\* iter(v) and "x in v" are a TypeError
NotIterable(v) == v.t \in {"null", "num"}

\* what a for loop over v visits: the elements of a list, the keys of a
\* dict, the characters of a str
Elements(v) ==
    CASE v.t = "list" -> v.items
      [] v.t = "dict" -> [i \in 1..Len(v.items) |-> PyText(v.items[i].s)]
      [] OTHER -> [i \in 1..Len(v.s) |-> PyText(<<v.s[i]>>)]

\* key in v: a key of a dict, an element of a list, a substring of a str
In(key, v) ==
    CASE v.t = "dict" -> HasKey(v, key)
      [] v.t = "list" -> \E i \in 1..Len(v.items) : v.items[i] = PyText(key)
      [] OTHER -> Contains(v.s, key)

\* v cannot be a dict key: TypeError, unhashable
Unhashable(v) == v.t \in {"list", "dict"}

\* what a call does: returns a value, or raises an exception with a message
Ok(v) == [raised |-> "none", message |-> <<>>, value |-> v]

Raises(exception, message) ==
    [raised |-> exception, message |-> message, value |-> PyNone]

----------------------------------------------------------------------------
(* webhook/handler.py *)

\* the name "resource", spelled out: it is looked for inside strings
RESOURCE == <<"r", "e", "s", "o", "u", "r", "c", "e">>

MsgEmptyBody == <<"Request", "body", "is", "empty">>

MsgInvalidJson == <<"Invalid", "JSON">>

MsgExpectedBundle == <<"Expected", "resourceType", "'Bundle'">>

MsgUnsupportedType == <<"Unsupported", "bundle", "type">>

MsgNoEntries == <<"Bundle", "contains", "no", "entries">>

MsgEntryMissing(i) == <<"Entry">> \o StrOf(i) \o <<"missing", "'resource'", "field">>

MsgJobIdRequired == <<"Job", "ID", "required">>

MsgUnknownEndpoint == <<"Unknown", "endpoint">>

MsgJobNotFound(job_id) == <<"Job", "not", "found">> \o job_id

valid_types == {<<"transaction">>, <<"batch">>, <<"collection">>,
                <<"message">>, <<"document">>}

\* error_response(status_code, message) of the ingestion handlers
ingestion_error_response(status_code, message) ==
    [statusCode |-> status_code,
     headers    |-> [ContentType |-> "application/json"],
     body       |-> [error |-> message, statusCode |-> status_code]]

\* success_response(body) of the ingestion handlers
ingestion_success_response(body) ==
    [statusCode |-> 200,
     headers    |-> [ContentType |-> "application/json"],
     body       |-> body]

\* the for loop of parse_bundle over the entries from the i-th on
RECURSIVE CheckEntries(_, _, _)
CheckEntries(bundle, es, i) ==
    IF i > Len(es) THEN Ok(bundle)
    ELSE IF NotIterable(es[i]) THEN Raises("TypeError", <<>>)
    ELSE IF ~In(RESOURCE, es[i])
    THEN Raises("ValidationError", MsgEntryMissing(i - 1))
    ELSE CheckEntries(bundle, es, i + 1)

\* parse_bundle(body)
parse_bundle(body) ==
    IF body.kind \in {"none", "empty"}
    THEN Raises("ValidationError", MsgEmptyBody)
    ELSE IF body.kind = "malformed"
    THEN Raises("ValidationError", MsgInvalidJson)
    ELSE LET bundle == loads(body)
         IN  IF NoGet(bundle) THEN Raises("AttributeError", <<>>)
             ELSE IF Lookup(bundle, <<"resourceType">>, PyNone) # PyText(<<"Bundle">>)
             THEN Raises("ValidationError", MsgExpectedBundle)
             ELSE IF ~\E ty \in valid_types :
                         Lookup(bundle, <<"type">>, PyNone) = PyText(ty)
             THEN Raises("ValidationError", MsgUnsupportedType)
             ELSE LET entries == Lookup(bundle, <<"entry">>, PyList(<<>>))
                  IN  IF Falsy(entries)
                      THEN Raises("ValidationError", MsgNoEntries)
                      ELSE IF NotIterable(entries)
                      THEN Raises("TypeError", <<>>)
                      ELSE CheckEntries(bundle, Elements(entries), 1)

\* counts[resource_type] = counts.get(resource_type, 0) + 1
Counted(counts, resource_type) ==
    IF HasKey(counts, resource_type.s)
    THEN PyObject([i \in 1..Len(counts.items) |->
             IF counts.items[i].s = resource_type.s
             THEN Member(resource_type.s,
                         PyInt(IntOf(counts.items[i].items[1].s) + 1))
             ELSE counts.items[i]])
    ELSE PyObject(Append(counts.items, Member(resource_type.s, PyInt(1))))

\* the for loop of count_resources over the entries from the i-th on
RECURSIVE CountFrom(_, _, _)
CountFrom(es, i, counts) ==
    IF i > Len(es) THEN Ok(counts)
    ELSE IF NoGet(es[i]) THEN Raises("AttributeError", <<>>)
    ELSE LET res == Lookup(es[i], RESOURCE, PyObject(<<>>))
         IN  IF NoGet(res) THEN Raises("AttributeError", <<>>)
             ELSE LET resource_type ==
                          Lookup(res, <<"resourceType">>, PyText(<<"Unknown">>))
                  IN  IF Unhashable(resource_type)
                      THEN Raises("TypeError", <<>>)
                      ELSE CountFrom(es, i + 1, Counted(counts, resource_type))

\* count_resources(bundle), bundle a dict; the counts are keyed by the text
\* of the resource type
count_resources(bundle) ==
    LET entries == Lookup(bundle, <<"entry">>, PyList(<<>>))
    IN  IF NotIterable(entries) THEN Raises("TypeError", <<>>)
        ELSE CountFrom(Elements(entries), 1, PyObject(<<>>))

\* n in w digits, zero padded
RECURSIVE Pad(_, _)
Pad(n, w) == IF Len(StrOf(n)) >= w THEN StrOf(n) ELSE <<"0">> \o Pad(n, w - 1)

\* the day and the second of the day of a clock reading
DayOf(t) == t \div SecondsPerDay

SecondOf(t) == t % SecondsPerDay

\* the date of a clock reading: the clock starts on 2024-01-01
DateDigits(t) == <<<<"2", "0", "2", "4">>, <<"0", "1">>, Pad(DayOf(t) + 1, 2)>>

\* strftime("%Y%m%d%H%M%S")
Timestamp(t) ==
    DateDigits(t)[1] \o DateDigits(t)[2] \o DateDigits(t)[3]
        \o Pad(SecondOf(t) \div 3600, 2)
        \o Pad((SecondOf(t) % 3600) \div 60, 2) \o Pad(SecondOf(t) % 60, 2)

\* strftime("%Y/%m/%d")
DatePath(t) == Join(DateDigits(t), "/")

\* the characters md5 is fed in the model, each with a number
HashAlphabet == Digits \o <<"a", "b", "-">>

CharCode(c) == CHOOSE i \in 1..Len(HashAlphabet) : HashAlphabet[i] = c

\* hashlib.md5(text).hexdigest()[:8]: a fixed function of the text, to
\* eight digits
RECURSIVE Checksum(_, _)
Checksum(text, acc) ==
    IF text = <<>> THEN acc
    ELSE Checksum(Tail(text), (31 * acc + CharCode(Head(text))) % DigestSpace)

md5_prefix(text) == Pad(Checksum(text, 0), 8)

\* f"job-{timestamp}-{unique}"
JobId(timestamp, unique) ==
    <<"j", "o", "b", "-">> \o timestamp \o <<"-">> \o unique

\* generate_job_id(request_id), utcnow() reading t
generate_job_id(request_id, t) ==
    JobId(Timestamp(t), md5_prefix(request_id \o Timestamp(t)))

\* f"{UPLOAD_PREFIX}/webhooks/{date_path}/{job_id}.json"
S3Key(date_path, job_id) ==
    <<"incoming/fhir", "/webhooks/">> \o date_path \o <<"/">> \o job_id
        \o <<".json">>

\* s.split(sep)
RECURSIVE SplitOn(_, _)
SplitOn(s, sep) ==
    IF \A i \in 1..Len(s) : s[i] # sep
    THEN <<s>>
    ELSE LET i == CHOOSE k \in 1..Len(s) :
                      s[k] = sep /\ \A j \in 1..(k - 1) : s[j] # sep
         IN  <<SubSeq(s, 1, i - 1)>> \o SplitOn(SubSeq(s, i + 1, Len(s)), sep)

\* s[a:b]
PySlice(s, a, b) == SubSeq(s, a + 1, Min(b, Len(s)))

\* the key get_job_status probes for job_id, utcnow() reading t
StatusKey(job_id, t) ==
    LET parts == SplitOn(job_id, "-")
        date_path ==
            IF Len(parts) >= 2
            THEN Join(<<PySlice(parts[2], 0, 4), PySlice(parts[2], 4, 6),
                        PySlice(parts[2], 6, 8)>>, "/")
            ELSE DatePath(t)
    IN  S3Key(date_path, job_id)

\* the keys that hold an object
Stored == {s3[i].Key : i \in 1..Len(s3)}

\* one invocation of the webhook Lambda: where it is, what it was given,
\* its locals, whether it has sent its message, and its response
Invocation(at, ev, bundle, job_id, s3_key, resp) ==
    [pc |-> at, handler |-> "webhook", event |-> ev, bundle |-> bundle,
     job_id |-> job_id, s3_key |-> s3_key, queued |-> FALSE,
     response |-> resp]

\* the invocation moves on to a step
At(at) == [inv EXCEPT !.pc = at]

\* the invocation ends with a response
Responds(resp) == [inv EXCEPT !.pc = "return", !.response = resp]

\* except ValidationError: 400 with str(e); except Exception: 500
Handled(out) ==
    IF out.raised = "ValidationError"
    THEN ingestion_error_response(400, out.message)
    ELSE ingestion_error_response(500, MsgInternal)

\* lambda_handler(event, context) up to the first read of the clock
webhook_lambda_handler(ev) ==
    LET start == Invocation("start", ev, PyNone, <<>>, <<>>, NoResponse)
        answer(resp) == [start EXCEPT !.pc = "return", !.response = resp]
    IN  IF Contains(ev.path, <<"/Bundle">>) /\ ev.httpMethod = "POST"
        THEN LET out == parse_bundle(ev.body)
             IN  IF out.raised # "none" THEN answer(Handled(out))
                 ELSE [start EXCEPT !.pc = "generate_job_id",
                                    !.bundle = out.value]
        ELSE IF Contains(ev.path, <<"/jobs/">>) /\ ev.httpMethod = "GET"
        THEN IF ev.jobId = <<>>
             THEN answer(ingestion_error_response(400, MsgJobIdRequired))
             ELSE [start EXCEPT !.pc = "get_job_status", !.job_id = ev.jobId]
        ELSE answer(ingestion_error_response(400, MsgUnknownEndpoint))

\* the state of the API handlers and of the helpers
api == <<handler_vars, db, sweep, applied>>

\* an invocation starts
ReceiveHook(ev) ==
    /\ inv.pc = "idle"
    /\ inv' = webhook_lambda_handler(ev)
    /\ UNCHANGED <<clock, s3, sqs, jobs>>
    /\ UNCHANGED api

\* job_id = generate_job_id(request_id)
GenerateJobId ==
    /\ inv.pc = "generate_job_id"
    /\ inv' = [inv EXCEPT !.pc = "store_bundle",
                          !.job_id = generate_job_id(inv.event.requestId, clock)]
    /\ UNCHANGED <<clock, s3, sqs, jobs>>
    /\ UNCHANGED api

\* the failure of put_object swallowed: the handler goes on with the key
StoreBundleSwallowing ==
    /\ inv.pc = "store_bundle"
    /\ LET s3_key == S3Key(DatePath(clock), inv.job_id)
       IN  /\ inv' = [inv EXCEPT !.pc = "queue_for_processing",
                                 !.s3_key = s3_key]
           /\ \/ s3' = Append(s3, [Key |-> s3_key, Body |-> inv.bundle,
                                   job_id |-> inv.job_id])
              \/ s3' = s3
    /\ UNCHANGED <<clock, sqs, jobs>>
    /\ UNCHANGED api

\* s3_key = store_bundle(bundle, job_id): put_object stores the bundle, or
\* raises
StoreBundle ==
    /\ inv.pc = "store_bundle"
    /\ LET s3_key == S3Key(DatePath(clock), inv.job_id)
       IN  \/ /\ s3' = Append(s3, [Key |-> s3_key, Body |-> inv.bundle,
                                   job_id |-> inv.job_id])
              /\ inv' = [inv EXCEPT !.pc = "queue_for_processing",
                                    !.s3_key = s3_key]
           \/ /\ inv' = Responds(Handled(Raises("ClientError", <<>>)))
              /\ s3' = s3
    /\ UNCHANGED <<clock, sqs, jobs>>
    /\ UNCHANGED api

\* queue_for_processing(job_id, s3_key): nothing without a queue URL,
\* otherwise send_message sends, or raises
QueueForProcessing ==
    /\ inv.pc = "queue_for_processing"
    /\ IF ~inv.event.INGESTION_QUEUE_URL
       THEN inv' = At("respond") /\ sqs' = sqs
       ELSE \/ /\ sqs' = Append(sqs, [jobId |-> inv.job_id,
                                      s3Key |-> inv.s3_key])
               /\ inv' = [inv EXCEPT !.pc = "respond", !.queued = TRUE]
            \/ /\ inv' = Responds(Handled(Raises("ClientError", <<>>)))
               /\ sqs' = sqs
    /\ UNCHANGED <<clock, s3, jobs>>
    /\ UNCHANGED api

\* the 202 response of receive_bundle
Accepted(request_id, job_id, resource_count, created_at) ==
    [statusCode |-> 202,
     headers    |-> [ContentType |-> "application/json",
                     XRequestId |-> request_id, XJobId |-> job_id],
     body       |-> [jobId |-> job_id, status |-> "accepted",
                     resourceCount |-> resource_count,
                     createdAt |-> created_at]]

\* the response body is built and the 202 returned
Respond ==
    /\ inv.pc = "respond"
    /\ LET out == count_resources(inv.bundle)
       IN  inv' = Responds(IF out.raised # "none" THEN Handled(out)
                           ELSE Accepted(inv.event.requestId, inv.job_id,
                                         out.value, clock))
    /\ UNCHANGED <<clock, s3, sqs, jobs>>
    /\ UNCHANGED api

\* get_job_status(job_id): head_object finds the object, answers 404, or
\* fails otherwise
GetJobStatus ==
    /\ inv.pc = "get_job_status"
    /\ LET s3_key == StatusKey(inv.job_id, clock)
       IN  \/ /\ s3_key \in Stored
              /\ inv' = [Responds(ingestion_success_response(
                                      [jobId |-> inv.job_id,
                                       status |-> "processing",
                                       s3Key |-> s3_key]))
                         EXCEPT !.s3_key = s3_key]
           \/ /\ s3_key \notin Stored
              /\ inv' = [Responds(ingestion_error_response(
                                      404, MsgJobNotFound(inv.job_id)))
                         EXCEPT !.s3_key = s3_key]
           \/ inv' = [Responds(Handled(Raises("ClientError", <<>>)))
                      EXCEPT !.s3_key = s3_key]
    /\ UNCHANGED <<clock, s3, sqs, jobs>>
    /\ UNCHANGED api

\* the response reaches the client; an accepted job is on record
ReturnHook ==
    /\ inv.pc = "return"
    /\ inv.handler = "webhook"
    /\ jobs' = IF inv.response.statusCode = 202
               THEN Append(jobs, [jobId |-> inv.job_id, s3Key |-> inv.s3_key,
                                  requestId |-> inv.event.requestId,
                                  queue_url |-> inv.event.INGESTION_QUEUE_URL,
                                  put |-> Len(s3)])
               ELSE jobs
    /\ inv' = InvIdle
    /\ UNCHANGED <<clock, s3, sqs>>
    /\ UNCHANGED api

\* a second passes
Tick ==
    /\ clock < ClockStart + MaxTicks
    /\ clock' = clock + 1
    /\ UNCHANGED <<s3, sqs, inv, jobs>>
    /\ UNCHANGED api


----------------------------------------------------------------------------
(* The webhook under requests of every kind, the clock running *)

PatientResource ==
    PyObject(<<Member(<<"resourceType">>, PyText(<<"Patient">>))>>)

EncounterResource ==
    PyObject(<<Member(<<"resourceType">>, PyText(<<"Encounter">>))>>)

EntryOf(res) == PyObject(<<Member(RESOURCE, res)>>)

RequestOnly == PyObject(<<Member(<<"request">>, PyText(<<"POST">>))>>)

BundleOf(ty, entry) ==
    PyObject(<<Member(<<"resourceType">>, PyText(<<"Bundle">>)),
               Member(<<"type">>, PyText(<<ty>>)),
               Member(<<"entry">>, entry)>>)

\* bundles that pass every check of parse_bundle and can be counted
GoodBundles ==
    {BundleOf("transaction", PyList(<<EntryOf(PatientResource)>>)),
     BundleOf("batch", PyList(<<EntryOf(PatientResource),
                                EntryOf(EncounterResource)>>)),
     PyObject(<<Member(<<"resourceType">>, PyText(<<"Bundle">>)),
                Member(<<"type">>, PyText(<<"searchset">>)),
                Member(<<"type">>, PyText(<<"document">>)),
                Member(<<"entry">>, PyList(<<EntryOf(PatientResource)>>))>>)}

\* JSON values that are no such bundle
OtherValues ==
    {PyList(<<>>), PyInt(5), PatientResource,
     BundleOf("searchset", PyList(<<EntryOf(PatientResource)>>)),
     PyObject(<<Member(<<"resourceType">>, PyText(<<"Bundle">>)),
                Member(<<"type">>, PyText(<<"transaction">>))>>),
     BundleOf("transaction", PyList(<<>>)),
     BundleOf("transaction", PyNone),
     BundleOf("transaction", PyInt(5)),
     BundleOf("transaction", PyText(RESOURCE)),
     BundleOf("transaction", PyList(<<EntryOf(PatientResource), RequestOnly>>)),
     BundleOf("transaction", PyList(<<PyInt(5)>>)),
     BundleOf("transaction", PyList(<<PyText(RESOURCE)>>)),
     BundleOf("transaction", PyList(<<EntryOf(PyNone)>>))}

Bodies ==
    {NoBody, EmptyBody, MalformedBody}
        \cup {JsonBody(v) : v \in GoodBundles \cup OtherValues}

RequestIds == {<<"a">>, <<"a", "-", "b">>}

HookEvent(method, path, body, request_id, job_id, queue) ==
    [httpMethod |-> method, path |-> path, body |-> body,
     requestId |-> request_id, jobId |-> job_id,
     INGESTION_QUEUE_URL |-> queue]

BundlePath == <<"/ingestion", "/fhir", "/Bundle">>

JobsPath == <<"/ingestion", "/jobs/", "{jobId}">>

\* the job ids a client asks about: those it was given, one of another
\* shape, none
AskedJobIds == {jobs[i].jobId : i \in 1..Len(jobs)} \cup {<<"n", "o">>, <<>>}

ReceivePost ==
    /\ Len(s3) < MaxPuts
    /\ \E body \in Bodies, request_id \in RequestIds, queue \in BOOLEAN :
           ReceiveHook(HookEvent("POST", BundlePath, body, request_id, <<>>, queue))

ReceiveGet ==
    \E job_id \in AskedJobIds, path \in {JobsPath, BundlePath} :
        ReceiveHook(HookEvent("GET", path, NoBody, <<"a">>, job_id, FALSE))

NextHook ==
    \/ ReceivePost
    \/ ReceiveGet
    \/ GenerateJobId
    \/ StoreBundle
    \/ QueueForProcessing
    \/ Respond
    \/ GetJobStatus
    \/ ReturnHook
    \/ Tick

InitHook == InitWith({Tables(0)})

SpecHook == InitHook /\ [][NextHook]_vars


----------------------------------------------------------------------------
(* Claims on the webhook *)

\* the invocation is a POST on the Bundle route
BundlePosted ==
    /\ inv.pc # "idle"
    /\ inv.handler = "webhook"
    /\ Contains(inv.event.path, <<"/Bundle">>)
    /\ inv.event.httpMethod = "POST"

\* the body is non-empty valid JSON, an object with resourceType "Bundle", a
\* type among the five, a non-empty entry list and a "resource" field in
\* every entry
IsBundle(body) ==
    /\ body.kind = "json"
    /\ LET b  == loads(body)
           es == Lookup(b, <<"entry">>, PyNone)
       IN  /\ b.t = "dict"
           /\ Lookup(b, <<"resourceType">>, PyNone) = PyText(<<"Bundle">>)
           /\ \E ty \in valid_types : Lookup(b, <<"type">>, PyNone) = PyText(ty)
           /\ es.t = "list"
           /\ es.items # <<>>
           /\ \A i \in 1..Len(es.items) :
                  es.items[i].t = "dict" /\ HasKey(es.items[i], RESOURCE)

\* C21: a POST .../Bundle request ends with 202 only if the body is
\* non-empty valid JSON with resourceType "Bundle", a type among transaction,
\* batch, collection, message and document, a non-empty entry list and a
\* "resource" field in every entry; if one of these fails it ends with 400,
\* and the invocation has put no object and sent no message.
C21_BundleValidation ==
    (BundlePosted /\ inv.pc = "return") =>
        /\ inv.response.statusCode = 202 => IsBundle(inv.event.body)
        /\ ~IsBundle(inv.event.body) =>
               /\ inv.response.statusCode = 400
               /\ inv.s3_key = <<>>
               /\ ~inv.queued


\* C22: any two accepted bundles have distinct job ids and distinct S3 keys,
\* and no put_object of an accepted bundle writes the key of another accepted
\* bundle.
C22_JobIdsUnique ==
    \A i, j \in 1..Len(jobs) :
        i # j =>
            /\ jobs[i].jobId # jobs[j].jobId
            /\ jobs[i].s3Key # jobs[j].s3Key
            /\ s3[jobs[i].put].Key # s3[jobs[j].put].Key


----------------------------------------------------------------------------
(* processor/validator.py *)

\* the characters of an NDJSON content: the newline, the space, and one
\* character for each kind of JSON text a line may hold: G an object with
\* "resourceType", M one that also has "meta", N an object without
\* "resourceType", A a JSON value that is no object, X no JSON at all
NdAlphabet == {"\n", " ", "G", "M", "N", "A", "X"}

IsWhite(c) == c \in {" ", "\n"}

RECURSIVE LStripWhite(_)
LStripWhite(s) ==
    IF s # <<>> /\ IsWhite(Head(s)) THEN LStripWhite(Tail(s)) ELSE s

RECURSIVE RStripWhite(_)
RStripWhite(s) ==
    IF s # <<>> /\ IsWhite(s[Len(s)])
    THEN RStripWhite(SubSeq(s, 1, Len(s) - 1)) ELSE s

\* str.strip() of a content: spaces and newlines go
StripWhite(s) == RStripWhite(LStripWhite(s))

\* json.loads(line) raises JSONDecodeError: the line, spaces at its ends
\* aside, is not exactly one JSON text
LineNotJson(line) == Len(Strip(line)) # 1 \/ Strip(line) = <<"X">>

\* the record json.loads(line) returns for a line holding one JSON text
LineRecord(line) ==
    LET c == Strip(line)[1]
    IN  [isDict |-> c \in {"G", "M", "N"},
         resourceType |-> c \in {"G", "M"},
         meta |-> IF c = "M" THEN "source" ELSE "absent"]

\* record["meta"] = {} unless the record has a "meta"
WithMeta(record) ==
    IF record.meta = "absent" THEN [record EXCEPT !.meta = "empty"] ELSE record

MsgLineInvalidJson == <<"Invalid", "JSON", "on", "line">>

MsgLineNotObject == <<"is", "not", "a", "JSON", "object">>

MsgLineNoType == <<"Missing", "'resourceType'", "on", "line">>

\* raise ValidationError(...) naming a line
RaisesAt(number, message) ==
    [raised |-> TRUE, line |-> number, message |-> message, records |-> <<>>]

\* the for loop of validate_ndjson from lines[i] on
RECURSIVE ValidateFrom(_, _, _)
ValidateFrom(lines, i, valid_records) ==
    IF i > Len(lines)
    THEN [raised |-> FALSE, line |-> 0, message |-> <<>>,
          records |-> valid_records]
    ELSE IF Strip(lines[i]) = <<>> THEN ValidateFrom(lines, i + 1, valid_records)
    ELSE IF LineNotJson(lines[i]) THEN RaisesAt(i, MsgLineInvalidJson)
    ELSE IF ~LineRecord(lines[i]).isDict THEN RaisesAt(i, MsgLineNotObject)
    ELSE IF ~LineRecord(lines[i]).resourceType THEN RaisesAt(i, MsgLineNoType)
    ELSE ValidateFrom(lines, i + 1,
                      Append(valid_records, WithMeta(LineRecord(lines[i]))))

\* validate_ndjson(content)
validate_ndjson(content) ==
    ValidateFrom(SplitOn(StripWhite(content), "\n"), 1, <<>>)

----------------------------------------------------------------------------
(* The validator applied to every short content *)

NdContents == Strings(NdAlphabet, MaxContentLen)

ApplyValidate ==
    /\ applied.fn = "none"
    /\ \E content \in NdContents :
           applied' = [fn |-> "validate_ndjson", content |-> content,
                       result |-> validate_ndjson(content)]
    /\ UNCHANGED <<handler_vars, db, sweep, ingestion>>

InitNdjson == InitWith({Tables(0)})

NextNdjson == ApplyValidate

SpecNdjson == InitNdjson /\ [][NextNdjson]_vars

\* the lines of the input as written, and those that are not blank
InputLines(content) == SplitOn(content, "\n")

NonBlank(content) ==
    {i \in 1..Len(InputLines(content)) : Strip(InputLines(content)[i]) # <<>>}

\* the line is a JSON object containing "resourceType"
GoodLine(line) == Strip(line) \in {<<"G">>, <<"M">>}

\* the non-blank lines from the i-th on, in input order
RECURSIVE RecordsFrom(_, _)
RecordsFrom(lines, i) ==
    IF i > Len(lines) THEN <<>>
    ELSE IF Strip(lines[i]) = <<>> THEN RecordsFrom(lines, i + 1)
    ELSE <<LineRecord(lines[i])>> \o RecordsFrom(lines, i + 1)

\* C23: validate_ndjson returns one record per non-blank line of the input,
\* in input order and each with a "meta" key, iff every non-blank line is a
\* JSON object containing "resourceType"; otherwise it raises
\* ValidationError for the first offending line with that line's 1-based
\* number in the input, and returns no list.
C23_AllOrNothing ==
    applied.fn = "validate_ndjson" =>
        LET lines == InputLines(applied.content)
            bad   == {i \in NonBlank(applied.content) : ~GoodLine(lines[i])}
            r     == applied.result
            recs  == RecordsFrom(lines, 1)
        IN  IF bad = {}
            THEN /\ ~r.raised
                 /\ Len(r.records) = Len(recs)
                 /\ \A k \in 1..Len(recs) :
                        /\ r.records[k].resourceType
                        /\ r.records[k].meta # "absent"
                        /\ recs[k].meta = "source" => r.records[k].meta = "source"
            ELSE /\ r.raised
                 /\ r.records = <<>>
                 /\ r.line = CHOOSE i \in bad : \A j \in bad : i <= j


----------------------------------------------------------------------------
(* presigned/handler.py *)

\* safe_chars of sanitize_filename
safe_chars ==
    {"a", "b", "c", "d", "e", "f", "g", "h", "i", "j", "k", "l", "m", "n",
     "o", "p", "q", "r", "s", "t", "u", "v", "w", "x", "y", "z", "A", "B",
     "C", "D", "E", "F", "G", "H", "I", "J", "K", "L", "M", "N", "O", "P",
     "Q", "R", "S", "T", "U", "V", "W", "X", "Y", "Z", "0", "1", "2", "3",
     "4", "5", "6", "7", "8", "9", "-", "_", "."}

\* "".join(c if c in safe_chars else "_" for c in filename)
Replaced(filename) ==
    [i \in 1..Len(filename) |->
        IF filename[i] \in safe_chars THEN filename[i] ELSE "_"]

\* no truncation
Untruncated(sanitized) == sanitized

\* sanitized[:100] when longer than 100
Truncated(sanitized) ==
    IF Len(sanitized) > FilenameLimit
    THEN SubSeq(sanitized, 1, FilenameLimit) ELSE sanitized

RECURSIVE LStripUnderscore(_)
LStripUnderscore(s) ==
    IF s # <<>> /\ Head(s) = "_" THEN LStripUnderscore(Tail(s)) ELSE s

RECURSIVE RStripUnderscore(_)
RStripUnderscore(s) ==
    IF s # <<>> /\ s[Len(s)] = "_"
    THEN RStripUnderscore(SubSeq(s, 1, Len(s) - 1)) ELSE s

\* sanitized.strip("_")
StripUnderscore(s) == RStripUnderscore(LStripUnderscore(s))

Upload == <<"u", "p", "l", "o", "a", "d">>

\* sanitize_filename(filename)
sanitize_filename(filename) ==
    LET sanitized == StripUnderscore(Truncated(Replaced(filename)))
    IN  IF sanitized = <<>> THEN Upload ELSE sanitized

----------------------------------------------------------------------------
(* sanitize_filename applied to short names and to names around the limit *)

NameAlphabet == {"a", ".", "_", "/"}

\* c, n times
Repeat(c, n) == [i \in 1..n |-> c]

\* the lengths of the run in the middle of a name: none, or about the limit
FillLengths == {0} \cup (FilenameLimit - MaxEdgeLen)..(FilenameLimit + 1)

Filenames ==
    {head \o Repeat(c, n) \o tail :
         head \in Strings(NameAlphabet, MaxEdgeLen),
         tail \in Strings(NameAlphabet, MaxEdgeLen),
         c \in {"a", "_"}, n \in FillLengths}

ApplySanitize ==
    /\ applied.fn = "none"
    /\ \E filename \in Filenames :
           applied' = [fn |-> "sanitize_filename", filename |-> filename,
                       result |-> sanitize_filename(filename)]
    /\ UNCHANGED <<handler_vars, db, sweep, ingestion>>

InitSanitize == InitWith({Tables(0)})

NextSanitize == ApplySanitize

SpecSanitize == InitSanitize /\ [][NextSanitize]_vars

\* the characters [A-Za-z0-9._-]
AllowedChars ==
    {"-", "_", "."} \cup {Digits[i] : i \in 1..Len(Digits)}
        \cup {c \in safe_chars : c \notin {"-", "_", "."} /\ ~IsDigit(c)}

\* the input with every disallowed character replaced by one underscore
\* and every allowed character kept in place
IsReplacement(name, filename) ==
    /\ Len(name) = Len(filename)
    /\ \A i \in 1..Len(filename) :
           name[i] = IF filename[i] \in AllowedChars THEN filename[i] ELSE "_"

----------------------------------------------------------------------------
(* presigned/handler.py: the upload URL request *)

VALID_CONTENT_TYPES ==
    <<"application/fhir+json", "application/json", "application/fhir+ndjson",
      "application/x-ndjson">>

\* content_type in VALID_CONTENT_TYPES
IsValidContentType(content_type) ==
    \E i \in 1..Len(VALID_CONTENT_TYPES) :
        content_type = PyText(<<VALID_CONTENT_TYPES[i]>>)

MsgInvalidContentType == <<"Invalid", "contentType">>

MsgExpiresIn == <<"expiresIn", "must", "be", "an", "integer", "between", "60",
                  "and", "86400", "seconds">>

\* not isinstance(expires_in, int) or expires_in < 60 or expires_in > 86400
BadExpiresIn(expires_in) ==
    \/ expires_in.t # "num"
    \/ IntOf(expires_in.s) < 60
    \/ IntOf(expires_in.s) > 86400

\* parse_request(body)
parse_request(body) ==
    IF body.kind # "json" THEN Ok(PyObject(<<>>))
    ELSE LET params == loads(body)
         IN  IF NoGet(params) THEN Raises("AttributeError", <<>>)
             ELSE LET content_type == Lookup(params, <<"contentType">>, PyText(<<>>))
                  IN  IF ~Falsy(content_type) /\ ~IsValidContentType(content_type)
                      THEN Raises("ValidationError", MsgInvalidContentType)
                      ELSE IF /\ HasKey(params, <<"expiresIn">>)
                              /\ BadExpiresIn(Lookup(params, <<"expiresIn">>, PyNone))
                      THEN Raises("ValidationError", MsgExpiresIn)
                      ELSE Ok(params)

\* every content type given the extension .json
get_file_extensionJson(content_type) == <<".json">>

\* get_file_extension(content_type), content_type hashable
get_file_extension(content_type) ==
    IF content_type \in {PyText(<<"application/fhir+ndjson">>),
                         PyText(<<"application/x-ndjson">>)}
    THEN <<".ndjson">> ELSE <<".json">>

\* generate_upload_id(), utcnow() reading t and uuid4().hex[:8] being unique
generate_upload_id(t, unique) ==
    <<"u", "p", "l", "o", "a", "d", "-">> \o Timestamp(t) \o <<"-">> \o unique

\* f"{UPLOAD_PREFIX}/uploads/{date_path}/{name}"
UploadKey(date_path, name) ==
    <<"incoming/fhir", "/uploads/">> \o date_path \o <<"/">> \o name

\* what generate_upload_url gives: a response, and the keys it has had
\* signed by generate_presigned_url
Outcome(resp, signed) == [response |-> resp, signed |-> signed]

\* the 200 response of generate_upload_url
UploadUrl(request_id, upload_id, content_type, s3_key) ==
    [statusCode |-> 200,
     headers    |-> [ContentType |-> "application/json",
                     XRequestId |-> request_id, XUploadId |-> upload_id],
     body       |-> [uploadId |-> upload_id, uploadUrl |-> <<"signed", s3_key>>,
                     method |-> "PUT",
                     headers |-> [ContentType |-> content_type],
                     s3Key |-> s3_key]]

\* generate_upload_url(body, request_id) inside the try of lambda_handler
generate_upload_url(body, request_id, t, unique) ==
    LET parsed == parse_request(body)
        params == parsed.value
        upload_id == generate_upload_id(t, unique)
        content_type ==
            Lookup(params, <<"contentType">>, PyText(<<"application/fhir+json">>))
        filename == Lookup(params, <<"filename">>, PyNone)
        s3_key ==
            IF Falsy(filename)
            THEN UploadKey(DatePath(t), upload_id \o get_file_extension(content_type))
            ELSE UploadKey(DatePath(t),
                           upload_id \o <<"-">> \o sanitize_filename(filename.s))
    IN  IF parsed.raised # "none" THEN Outcome(Handled(parsed), <<>>)
        ELSE IF Unhashable(content_type)
        THEN Outcome(Handled(Raises("TypeError", <<>>)), <<>>)
        ELSE IF ~Falsy(filename) /\ NotIterable(filename)
        THEN Outcome(Handled(Raises("TypeError", <<>>)), <<>>)
        ELSE Outcome(UploadUrl(request_id, upload_id, content_type, s3_key),
                     <<s3_key>>)

\* lambda_handler(event, context) of the presigned URL API
presigned_lambda_handler(ev, t, unique) ==
    IF Contains(ev.path, <<"/upload-url">>) /\ ev.httpMethod = "POST"
    THEN generate_upload_url(ev.body, ev.requestId, t, unique)
    ELSE Outcome(ingestion_error_response(400, MsgUnknownEndpoint), <<>>)

----------------------------------------------------------------------------
(* The presigned URL API applied to bodies of every kind *)

ContentTypes ==
    {PyText(<<VALID_CONTENT_TYPES[i]>>) : i \in 1..Len(VALID_CONTENT_TYPES)}
        \cup {PyText(<<"text/plain">>), PyText(<<" ">>), PyText(<<>>), PyInt(5),
              PyInt(0), PyList(<<PyText(<<"application/json">>)>>), PyList(<<>>),
              PyNone}

ExpiresIns == {PyInt(59), PyInt(60), PyInt(86400), PyInt(86401), PyText(<<"60">>)}

UploadNames == {PyText(<<"a", "/", "b">>), PyText(<<"_">>), PyText(<<>>)}

\* the objects with any of the three members
Params ==
    {PyObject(ct \o ex \o fn) :
         ct \in {<<>>} \cup {<<Member(<<"contentType">>, v)>> : v \in ContentTypes},
         ex \in {<<>>} \cup {<<Member(<<"expiresIn">>, v)>> : v \in ExpiresIns},
         fn \in {<<>>} \cup {<<Member(<<"filename">>, v)>> : v \in UploadNames}}

UploadBodies ==
    {NoBody, EmptyBody, MalformedBody, JsonBody(PyList(<<>>))}
        \cup {JsonBody(v) : v \in Params}

UploadPath == <<"/ingestion", "/upload-url">>

UniqueDigits == {Pad(1, 8), Pad(2, 8)}

ApplyUploadUrl ==
    /\ applied.fn = "none"
    /\ \E body \in UploadBodies, method \in {"POST", "GET"},
          unique \in UniqueDigits :
           LET ev == HookEvent(method, UploadPath, body, <<"a">>, <<>>, FALSE)
           IN  applied' = [fn |-> "presigned", event |-> ev,
                           result |-> presigned_lambda_handler(ev, clock, unique)]
    /\ UNCHANGED <<handler_vars, db, sweep, ingestion>>

InitUpload == InitWith({Tables(0)})

NextUpload == ApplyUploadUrl

SpecUpload == InitUpload /\ [][NextUpload]_vars

\* a POST on the upload URL route has been answered
UploadAsked ==
    /\ applied.fn = "presigned"
    /\ applied.event.httpMethod = "POST"
    /\ Contains(applied.event.path, <<"/upload-url">>)

\* the value of a member of the JSON object the body spells, or None
Given(body, key) ==
    IF body.kind = "json" /\ body.value.t = "dict"
    THEN Lookup(loads(body), key, PyNone) ELSE PyNone

\* the body is a JSON object with a non-empty contentType outside the four
BadContentType(body) ==
    /\ body.kind = "json"
    /\ body.value.t = "dict"
    /\ HasKey(body.value, <<"contentType">>)
    /\ ~Falsy(Given(body, <<"contentType">>))
    /\ Given(body, <<"contentType">>).s \notin
           {<<VALID_CONTENT_TYPES[i]>> : i \in 1..Len(VALID_CONTENT_TYPES)}

\* C25: the presigned-upload handler answers 400 "Invalid contentType",
\* without generating a URL, whenever the body is a JSON object with a
\* non-empty contentType outside the four allowed types; an empty or
\* non-JSON body gives 200 with content type application/fhir+json; for an
\* allowed content type and no filename the s3Key of the response ends with
\* .json for the two JSON types and .ndjson for the two NDJSON types.
C25_ContentTypes ==
    UploadAsked =>
        LET body == applied.event.body
            r    == applied.result.response
            ct   == Given(body, <<"contentType">>)
        IN  /\ BadContentType(body) =>
                   /\ r.statusCode = 400
                   /\ r.body.error = MsgInvalidContentType
                   /\ applied.result.signed = <<>>
            /\ body.kind # "json" =>
                   /\ r.statusCode = 200
                   /\ r.body.headers.ContentType = PyText(<<"application/fhir+json">>)
            /\ (/\ r.statusCode = 200
                /\ body.kind = "json"
                /\ IsValidContentType(ct)
                /\ ~HasKey(body.value, <<"filename">>)) =>
                   LET s3_key == r.body.s3Key
                   IN  s3_key[Len(s3_key)] =
                           IF ct.s \in {<<"application/fhir+json">>,
                                        <<"application/json">>}
                           THEN ".json" ELSE ".ndjson"

\* an NDJSON upload URL has been generated
C25_Witness ==
    /\ UploadAsked
    /\ applied.result.response.statusCode = 200
    /\ Given(applied.event.body, <<"contentType">>) = PyText(<<"application/x-ndjson">>)
    /\ ~HasKey(applied.event.body.value, <<"filename">>)
    /\ applied.result.signed # <<>>


----------------------------------------------------------------------------
(* Specification of a search while another process writes to the warehouse *)

RaceRequests ==
    {Request(r, EmptyMap, c @@ o @@ f) :
        r \in Resources,
        c \in Optional("_count", {<<"1">>, <<"2">>}),
        o \in Optional("_offset", {<<"0">>, <<"1">>}),
        f \in SweepFilters}

ReceiveRace ==
    /\ pc = "idle"
    /\ \E rq \in RaceRequests : lambda_handler(rq)
    /\ UNCHANGED aux

\* another process inserts the next document into a table
Insert ==
    /\ \E t \in DOMAIN store :
           /\ Len(store[t]) < Min(MaxDocs, Len(TableRows(t)))
           /\ store' = [store EXCEPT ![t] = Append(@, TableRows(t)[Len(@) + 1])]
    /\ UNCHANGED <<pc, resource, event, count, offset, conditions, query_params,
                   count_results, results, response, calls>>
    /\ UNCHANGED aux

\* another process deletes the last document of a table
Delete ==
    /\ \E t \in DOMAIN store :
           /\ store[t] # <<>>
           /\ store' = [store EXCEPT ![t] = SubSeq(@, 1, Len(@) - 1)]
    /\ UNCHANGED <<pc, resource, event, count, offset, conditions, query_params,
                   count_results, results, response, calls>>
    /\ UNCHANGED aux

InitRace == InitWith({Tables(1)})

NextRace == ReceiveRace \/ CountQuery \/ PageQuery \/ Return \/ Insert \/ Delete

SpecRace == InitRace /\ [][NextRace]_vars

\* C26: in every 200 search Bundle with offset >= 0 the number of entries
\* is at most the total, also when another process inserts or deletes
\* matching documents between the count query and the page query.
C26_EntriesAtMostTotal ==
    (Search200 /\ offset >= 0) =>
        Len(response.body.entry) <= response.body.total


----------------------------------------------------------------------------
(* Claims on the placeholders of the two statements *)

\* C27: for every combination of filters the count statement has as many
\* %s placeholders as bound values are passed with it, None being passed
\* when there are none, and the page statement has two placeholders more,
\* its bound values being those of the count statement followed by count
\* and then offset.
C27_PlaceholdersMatchValues ==
    /\ \A i \in CountCalls :
           /\ Placeholders(calls[i].sql) = Len(calls[i].params.values)
           /\ calls[i].params.isNone <=> Placeholders(calls[i].sql) = 0
    /\ \A i \in PageCalls :
           /\ i - 1 \in CountCalls
           /\ Placeholders(calls[i].sql) = Placeholders(calls[i - 1].sql) + 2
           /\ ~calls[i].params.isNone
           /\ calls[i].params.values =
                  calls[i - 1].params.values \o <<StrOf(count), StrOf(offset)>>

\* a page query with two filter values has run at an offset above 0
C27_Witness ==
    /\ PageCalls # {}
    /\ \A i \in PageCalls :
           /\ Placeholders(calls[i].sql) = 4
           /\ calls[i].params.values[3] = StrOf(count)
           /\ offset > 0


----------------------------------------------------------------------------
(* Specification of receive_bundle step by step, put_object and            *)
(* send_message failing or not, with and without a queue URL               *)

OrderBodies ==
    {EmptyBody,
     JsonBody(BundleOf("transaction", PyList(<<EntryOf(PatientResource)>>))),
     JsonBody(BundleOf("transaction", PyList(<<EntryOf(PyNone)>>)))}

ReceiveOrder ==
    /\ Len(s3) < MaxPuts
    /\ \E body \in OrderBodies, request_id \in RequestIds, queue \in BOOLEAN :
           ReceiveHook(HookEvent("POST", BundlePath, body, request_id, <<>>, queue))

NextOrder ==
    \/ ReceiveOrder
    \/ GenerateJobId
    \/ StoreBundle
    \/ QueueForProcessing
    \/ Respond
    \/ ReturnHook

InitOrder == InitWith({Tables(0)})

SpecOrder == InitOrder /\ [][NextOrder]_vars

\* the invocation's bundle is stored under its key
BundleStored ==
    \E i \in 1..Len(s3) : s3[i].Key = inv.s3_key /\ s3[i].job_id = inv.job_id

\* the invocation's message is in the queue
MessageSent ==
    \E i \in 1..Len(sqs) : sqs[i].jobId = inv.job_id /\ sqs[i].s3Key = inv.s3_key

\* C28: receive_bundle validates, stores in S3, enqueues to SQS and
\* responds, in this order: every SQS message sent references a key whose
\* put_object has succeeded; when put_object fails no message is sent and
\* the response is 500; a 202 response implies that the bundle was stored
\* and, with INGESTION_QUEUE_URL configured, that the message was enqueued,
\* and without it that the bundle was stored and no message sent.
C28_StoreThenEnqueue ==
    /\ \A i \in 1..Len(sqs) : sqs[i].s3Key \in Stored
    /\ BundlePosted =>
           /\ inv.pc \in {"generate_job_id", "store_bundle"} =>
                  inv.s3_key = <<>> /\ ~inv.queued
           /\ inv.pc \in {"queue_for_processing", "respond"} => BundleStored
           /\ inv.queued => BundleStored /\ MessageSent
           /\ (inv.pc = "return" /\ inv.bundle # PyNone /\ ~BundleStored) =>
                  /\ inv.response.statusCode = 500
                  /\ ~inv.queued
           /\ (inv.pc = "return" /\ inv.response.statusCode = 202) =>
                  /\ BundleStored
                  /\ inv.queued = inv.event.INGESTION_QUEUE_URL

\* a bundle has been answered 202 after its message was sent, and another
\* stored without a queue URL
C28_Witness ==
    /\ Len(jobs) = 2
    /\ jobs[1].queue_url
    /\ ~jobs[2].queue_url
    /\ Len(sqs) = 1
    /\ Len(s3) = 2


----------------------------------------------------------------------------
(* Claims on the job status *)

\* the invocation is a GET on the jobs route that has been answered
StatusAnswered ==
    /\ inv.pc = "return"
    /\ inv.handler = "webhook"
    /\ inv.event.httpMethod = "GET"
    /\ Contains(inv.event.path, <<"/jobs/">>)
    /\ inv.job_id # <<>>

\* C29: for every accepted job, get_job_status probes exactly the key under
\* which store_bundle wrote the job's bundle, and the status of an accepted
\* job, whose object exists, is never 404, also when the UTC date changes
\* between generate_job_id and store_bundle.
C29_StatusProbesStoredKey ==
    StatusAnswered =>
        \A i \in 1..Len(jobs) :
            jobs[i].jobId = inv.job_id =>
                /\ inv.s3_key = jobs[i].s3Key
                /\ inv.response.statusCode # 404


----------------------------------------------------------------------------
(* processor/handler.py *)

PROCESSED_PREFIX == <<"processed/">>

\* f"{PROCESSED_PREFIX}{filename}", filename = source_key.split("/")[-1]
DestKey(source_key) ==
    LET parts == SplitOn(source_key, "/")
    IN  PROCESSED_PREFIX \o parts[Len(parts)]

\* the object put for a source object whose content is valid
Processed(rec) ==
    [Key |-> DestKey(rec.key), Body |-> validate_ndjson(rec.content).records,
     ContentType |-> "application/x-ndjson"]

\* the exception is swallowed and the loop goes on with the next record
FailedSkipping(exception) == [inv EXCEPT !.k = @ + 1]

\* raise e: the exception leaves lambda_handler
Failed(exception) == [inv EXCEPT !.pc = "raised", !.raised = exception]

\* lambda_handler(event, context) is invoked: the loop is at the first
\* record; base is the number of objects put before
ReceiveProc(ev) ==
    /\ inv.pc = "idle"
    /\ inv' = [pc |-> "record", handler |-> "processor", event |-> ev, k |-> 1,
               base |-> Len(s3), raised |-> "none", response |-> NoResponse]
    /\ UNCHANGED <<clock, s3, sqs, jobs>>
    /\ UNCHANGED api

\* the body of the loop for record k: get_object, validate_ndjson,
\* put_object, each of the S3 calls succeeding or raising
ProcessRecord ==
    /\ inv.pc = "record"
    /\ inv.k <= Len(inv.event.Records)
    /\ LET rec == inv.event.Records[inv.k]
       IN  \/ inv' = Failed("ClientError") /\ s3' = s3
           \/ /\ validate_ndjson(rec.content).raised
              /\ inv' = Failed("ValidationError")
              /\ s3' = s3
           \/ /\ ~validate_ndjson(rec.content).raised
              /\ \/ inv' = Failed("ClientError") /\ s3' = s3
                 \/ /\ s3' = Append(s3, Processed(rec))
                    /\ inv' = [inv EXCEPT !.k = @ + 1]
    /\ UNCHANGED <<clock, sqs, jobs>>
    /\ UNCHANGED api

\* the loop is over: return {"statusCode": 200, "body": "Ingestion complete"}
Complete ==
    /\ inv.pc = "record"
    /\ inv.k > Len(inv.event.Records)
    /\ inv' = [inv EXCEPT !.pc = "return",
                          !.response = [statusCode |-> 200,
                                        body |-> <<"Ingestion", "complete">>]]
    /\ UNCHANGED <<clock, s3, sqs, jobs>>
    /\ UNCHANGED api

\* the invocation is over, with its response or its exception
ReturnProc ==
    /\ inv.pc \in {"return", "raised"}
    /\ inv.handler = "processor"
    /\ inv' = InvIdle
    /\ UNCHANGED <<clock, s3, sqs, jobs>>
    /\ UNCHANGED api

----------------------------------------------------------------------------
(* Specification of the processor on events of up to MaxRecords records *)

SourceKeys == {<<"a", "/", "x">>, <<"b", "/", "x">>, <<"y">>}

SourceContents == {<<"G", "\n", "M">>, <<"G", "\n", "N">>}

S3Records == {[key |-> k, content |-> c] : k \in SourceKeys, c \in SourceContents}

ProcEvents ==
    {[Records |-> rs] : rs \in UNION {[1..n -> S3Records] : n \in 0..MaxRecords}}

ReceiveEvent ==
    \E ev \in ProcEvents :
        /\ Len(s3) + Len(ev.Records) <= MaxRecords
        /\ ReceiveProc(ev)

InitProc == InitWith({Tables(0)})

NextProc == ReceiveEvent \/ ProcessRecord \/ Complete \/ ReturnProc

SpecProc == InitProc /\ [][NextProc]_vars

\* an invocation of the processor is under way or over
Processing == inv.pc # "idle" /\ inv.handler = "processor"

\* the objects the invocation has put, in order
Written == SubSeq(s3, inv.base + 1, Len(s3))

\* the content of the record is valid NDJSON of FHIR resources
ValidContent(rec) ==
    \A i \in NonBlank(rec.content) : GoodLine(InputLines(rec.content)[i])

PutsOnlyAppend == [][SubSeq(s3', 1, Len(s3)) = s3]_vars

====
